---- MODULE Spec2Model ----
(***************************************************************************)
(* Lead scoring engine: the rule-based scorer (ruleScoringService.js), the *)
(* intent classifier with its two oracle providers and heuristic fallback  *)
(* (aiScoringService.js) and the orchestrator (scoringService.js).         *)
(*                                                                         *)
(* JavaScript strings are sequences of one-character strings, so that      *)
(* toLowerCase, trim, includes and the reply regexes are computed, not     *)
(* assumed.  A JavaScript value is a record [t, v]: t is its type tag and  *)
(* v its payload.                                                          *)
(***************************************************************************)
EXTENDS Integers, Sequences, FiniteSets, TLC

----------------------------------------------------------------------------
(* JavaScript values *)

Str(s) == [t |-> "str", v |-> s]
\* null / undefined: falsy, and `x?.m()` short-circuits on it
Undef == [t |-> "undef", v |-> <<>>]
Null == [t |-> "null", v |-> <<>>]
\* a truthy non-string (a number): has no toLowerCase / trim / includes
Num == [t |-> "num", v |-> <<>>]
Arr(a) == [t |-> "arr", v |-> a]

\* `!!x` for the value kinds above
Truthy(x) == \/ x.t = "str" /\ x.v # <<>>
             \/ x.t = "num"
             \/ x.t = "arr"

----------------------------------------------------------------------------
(* String primitives *)

UpperChars == <<"A","B","C","D","E","F","G","H","I","J","K","L","M","N","O","P","Q","R","S","T","U","V","W","X","Y","Z">>
LowerChars == <<"a","b","c","d","e","f","g","h","i","j","k","l","m","n","o","p","q","r","s","t","u","v","w","x","y","z">>

\* the lower-case form of each upper-case letter, and the reverse
LowerOf == [c \in {UpperChars[i] : i \in 1..Len(UpperChars)} |->
               LowerChars[CHOOSE i \in 1..Len(UpperChars) : UpperChars[i] = c]]
UpperOf == [c \in {LowerChars[i] : i \in 1..Len(LowerChars)} |->
               UpperChars[CHOOSE i \in 1..Len(LowerChars) : LowerChars[i] = c]]

LowerChar(c) == IF c \in DOMAIN LowerOf THEN LowerOf[c] ELSE c

UpperChar(c) == IF c \in DOMAIN UpperOf THEN UpperOf[c] ELSE c

\* String.prototype.toLowerCase
toLowerCase(s) == [i \in 1..Len(s) |-> LowerChar(s[i])]

\* String.prototype.toUpperCase
toUpperCase(s) == [i \in 1..Len(s) |-> UpperChar(s[i])]

\* String.prototype.includes
includes(s, sub) ==
    \E i \in 0..(Len(s) - Len(sub)) : SubSeq(s, i + 1, i + Len(sub)) = sub

\* the characters \s matches, among those the model's texts use
IsSpace(c) == c \in {" ", "\n", "\t"}

\* String.prototype.trim
trim(s) ==
    IF \A i \in 1..Len(s) : IsSpace(s[i])
    THEN <<>>
    ELSE LET a == CHOOSE i \in 1..Len(s) :
                     ~IsSpace(s[i]) /\ \A j \in 1..(i - 1) : IsSpace(s[j])
             b == CHOOSE i \in 1..Len(s) :
                     ~IsSpace(s[i]) /\ \A j \in (i + 1)..Len(s) : IsSpace(s[j])
         IN  SubSeq(s, a, b)

\* Array.prototype.join
RECURSIVE join(_, _)
join(parts, sep) ==
    IF parts = <<>> THEN <<>>
    ELSE IF Len(parts) = 1 THEN parts[1]
    ELSE parts[1] \o sep \o join(Tail(parts), sep)

DigitChars == <<"0","1","2","3","4","5","6","7","8","9">>

\* `${n}` for a non-negative integer
RECURSIVE NumToStr(_)
NumToStr(n) ==
    IF n < 10 THEN <<DigitChars[n + 1]>>
    ELSE NumToStr(n \div 10) \o <<DigitChars[(n % 10) + 1]>>

----------------------------------------------------------------------------
(* ruleScoringService.js *)

decisionMakerKeywords ==
    << <<"c","e","o">>, <<"c","t","o">>, <<"c","f","o">>, <<"c","h","i","e","f">>, <<"p","r","e","s","i","d","e","n","t">>, <<"d","i","r","e","c","t","o","r">>,
       <<"h","e","a","d">>, <<"f","o","u","n","d","e","r">>, <<"o","w","n","e","r">>, <<"v","p">>, <<"v","i","c","e"," ","p","r","e","s","i","d","e","n","t">>,
       <<"g","e","n","e","r","a","l"," ","m","a","n","a","g","e","r">>, <<"m","a","n","a","g","i","n","g"," ","d","i","r","e","c","t","o","r">>,
       <<"s","e","n","i","o","r"," ","v","i","c","e"," ","p","r","e","s","i","d","e","n","t">> >>

influencerKeywords ==
    << <<"m","a","n","a","g","e","r">>, <<"l","e","a","d">>, <<"s","e","n","i","o","r">>, <<"p","r","i","n","c","i","p","a","l">>, <<"s","p","e","c","i","a","l","i","s","t">>,
       <<"a","r","c","h","i","t","e","c","t">>, <<"c","o","o","r","d","i","n","a","t","o","r">>, <<"s","u","p","e","r","v","i","s","o","r">>, <<"a","d","m","i","n","i","s","t","r","a","t","o","r">> >>

adjacentIndustries == << <<"s","a","a","s">>, <<"t","e","c","h">>, <<"t","e","c","h","n","o","l","o","g","y">>, <<"s","o","f","t","w","a","r","e">> >>

\* keywords.some(keyword => s.includes(keyword))
SomeIncluded(keywords, s) ==
    \E k \in 1..Len(keywords) : includes(s, keywords[k])

\* role.toLowerCase() is not a function
scoreRoleRelevanceThrows(role) == Truthy(role) /\ role.t # "str"

\* scoreRoleRelevance that looks for the influencer keywords first
scoreRoleRelevanceInfluencerFirst(role) ==
    IF ~Truthy(role) THEN 0
    ELSE LET roleLower == toLowerCase(role.v) IN
         IF SomeIncluded(influencerKeywords, roleLower) THEN 10
         ELSE IF SomeIncluded(decisionMakerKeywords, roleLower) THEN 20
         ELSE 0

scoreRoleRelevance(role) ==
    IF ~Truthy(role) THEN 0
    ELSE LET roleLower == toLowerCase(role.v) IN
         IF SomeIncluded(decisionMakerKeywords, roleLower) THEN 20
         ELSE IF SomeIncluded(influencerKeywords, roleLower) THEN 10
         ELSE 0

\* IndustryLoop that gives up after the use case at position k
IndustryLoopFirstOnly(industryLower, useCases, k) ==
    IF k > Len(useCases) THEN 0
    ELSE LET useCaseLower == toLowerCase(useCases[k].v) IN
         IF \/ includes(useCaseLower, industryLower)
            \/ includes(industryLower, useCaseLower)
         THEN 20
         ELSE IF \E a \in 1..Len(adjacentIndustries) :
                    \/ includes(industryLower, adjacentIndustries[a])
                    \/ includes(useCaseLower, adjacentIndustries[a])
         THEN 10
         ELSE 0

\* the for..of loop of scoreIndustryMatch over the use cases from position k
RECURSIVE IndustryLoop(_, _, _)
IndustryLoop(industryLower, useCases, k) ==
    IF k > Len(useCases) THEN 0
    ELSE LET useCaseLower == toLowerCase(useCases[k].v) IN
         IF \/ includes(useCaseLower, industryLower)
            \/ includes(industryLower, useCaseLower)
         THEN 20
         ELSE IF \E a \in 1..Len(adjacentIndustries) :
                    \/ includes(industryLower, adjacentIndustries[a])
                    \/ includes(useCaseLower, adjacentIndustries[a])
         THEN 10
         ELSE IndustryLoop(industryLower, useCases, k + 1)

\* the guard of scoreIndustryMatch returns 0 before anything can throw
IndustryGuard(industry, idealUseCases) ==
    \/ ~Truthy(industry)
    \/ ~Truthy(idealUseCases)
    \/ Len(idealUseCases.v) = 0

\* industry.toLowerCase() is not a function
scoreIndustryMatchThrows(industry, idealUseCases) ==
    ~IndustryGuard(industry, idealUseCases) /\ industry.t # "str"

\* scoreIndustryMatch whose guard lets an empty list of use cases through and
\* which scores a technology-adjacent industry before it loops
scoreIndustryMatchAdjacentFirst(industry, idealUseCases) ==
    IF ~Truthy(industry) \/ ~Truthy(idealUseCases) THEN 0
    ELSE IF SomeIncluded(adjacentIndustries, toLowerCase(industry.v)) THEN 10
    ELSE IndustryLoop(toLowerCase(industry.v), idealUseCases.v, 1)

scoreIndustryMatch(industry, idealUseCases) ==
    IF IndustryGuard(industry, idealUseCases) THEN 0
    ELSE IndustryLoop(toLowerCase(industry.v), idealUseCases.v, 1)

requiredFields == <<"name", "role", "company", "industry", "location">>

\* requiredFields.every stops at the first falsy field; value.trim() of a
\* truthy non-string reached before that is not a function
scoreDataCompletenessThrows(lead) ==
    \E k \in 1..Len(requiredFields) :
        /\ lead[requiredFields[k]].t = "num"
        /\ \A j \in 1..(k - 1) :
              /\ lead[requiredFields[j]].t = "str"
              /\ Len(trim(lead[requiredFields[j]].v)) > 0

\* scoreDataCompleteness that takes a blank field as present
scoreDataCompletenessUntrimmed(lead) ==
    IF \A k \in 1..Len(requiredFields) : Truthy(lead[requiredFields[k]])
    THEN 10 ELSE 0

scoreDataCompleteness(lead) ==
    IF \A k \in 1..Len(requiredFields) :
          /\ Truthy(lead[requiredFields[k]])
          /\ Len(trim(lead[requiredFields[k]].v)) > 0
    THEN 10 ELSE 0

ZeroBreakdown ==
    [roleScore |-> 0, industryScore |-> 0, completenessScore |-> 0,
     totalScore |-> 0]

\* calculateRuleScore whose total leaves the completeness score out
calculateRuleScoreOfTwo(lead, offer) ==
    IF \/ scoreRoleRelevanceThrows(lead.role)
       \/ scoreIndustryMatchThrows(lead.industry, offer.ideal_use_cases)
       \/ scoreDataCompletenessThrows(lead)
    THEN ZeroBreakdown
    ELSE LET roleScore == scoreRoleRelevance(lead.role)
             industryScore ==
                 scoreIndustryMatch(lead.industry, offer.ideal_use_cases)
             completenessScore == scoreDataCompleteness(lead)
         IN  [roleScore |-> roleScore,
              industryScore |-> industryScore,
              completenessScore |-> completenessScore,
              totalScore |-> roleScore + industryScore]

calculateRuleScore(lead, offer) ==
    IF \/ scoreRoleRelevanceThrows(lead.role)
       \/ scoreIndustryMatchThrows(lead.industry, offer.ideal_use_cases)
       \/ scoreDataCompletenessThrows(lead)
    THEN ZeroBreakdown
    ELSE LET roleScore == scoreRoleRelevance(lead.role)
             industryScore ==
                 scoreIndustryMatch(lead.industry, offer.ideal_use_cases)
             completenessScore == scoreDataCompleteness(lead)
         IN  [roleScore |-> roleScore,
              industryScore |-> industryScore,
              completenessScore |-> completenessScore,
              totalScore |-> roleScore + industryScore + completenessScore]

----------------------------------------------------------------------------
(* aiScoringService.js: client initialization *)

OpenAISentinel == <<"y","o","u","r","_","o","p","e","n","a","i","_","a","p","i","_","k","e","y","_","h","e","r","e">>
GeminiSentinel == <<"y","o","u","r","_","g","e","m","i","n","i","_","a","p","i","_","k","e","y","_","h","e","r","e">>

\* KeyConfigured without the blank-key test
KeyConfiguredNoTrim(key, sentinel) ==
    /\ Truthy(key)
    /\ key.v # sentinel

\* the condition under which the module constructs a client for a key
KeyConfigured(key, sentinel) ==
    /\ Truthy(key)
    /\ key.v # sentinel
    /\ trim(key.v) # <<>>

\* `openai` is non-null after the module has loaded
OpenAIClient(e) == KeyConfigured(e.OPENAI_API_KEY, OpenAISentinel)

\* `gemini` is non-null after the module has loaded
GeminiClient(e) == KeyConfigured(e.GEMINI_API_KEY, GeminiSentinel)

----------------------------------------------------------------------------
(* aiScoringService.js: provider selection *)

DefaultProvider == <<"o","p","e","n","a","i">>

\* process.env.AI_PROVIDER?.toLowerCase() || 'openai'
aiProvider(e) ==
    IF e.AI_PROVIDER.t = "str" /\ e.AI_PROVIDER.v # <<>>
    THEN toLowerCase(e.AI_PROVIDER.v)
    ELSE DefaultProvider

\* the if / else-if chain of calculateAIScore
SelectProvider(hasOpenAI, hasGemini, provider) ==
    IF hasOpenAI /\ provider = <<"o","p","e","n","a","i">> THEN "openai"
    ELSE IF hasGemini /\ provider = <<"g","e","m","i","n","i">> THEN "gemini"
    ELSE IF hasOpenAI THEN "openai"
    ELSE IF hasGemini THEN "gemini"
    ELSE "none"

----------------------------------------------------------------------------
(* aiScoringService.js: reply parsing *)

\* how a call ends: a returned value (a fulfilled promise) or a thrown error
\* (a rejected promise); Pending is a promise not yet settled
Return(v) == [status |-> "fulfilled", value |-> v]
Throw(e) == [status |-> "rejected", value |-> e]
Pending == [status |-> "pending", value |-> <<>>]

\* text, from position p, reads as `word` when case is ignored
MatchAt(text, p, word) ==
    /\ p + Len(word) - 1 <= Len(text)
    /\ \A k \in 1..Len(word) : LowerChar(text[p + k - 1]) = word[k]

\* the position after the longest run of \s starting at p
RECURSIVE SkipSpace(_, _)
SkipSpace(text, p) ==
    IF p <= Len(text) /\ IsSpace(text[p]) THEN SkipSpace(text, p + 1) ELSE p

IntentWords == << <<"h","i","g","h">>, <<"m","e","d","i","u","m">>, <<"l","o","w">> >>

\* /INTENT:\s*(High|Medium|Low)/i anchored at p matches
IntentMatchAt(text, p) ==
    /\ MatchAt(text, p, <<"i","n","t","e","n","t",":">>)
    /\ \E w \in 1..Len(IntentWords) :
          MatchAt(text, SkipSpace(text, p + 7), IntentWords[w])

\* where \s*(.+?) can start its capture for REASONING: anchored at p; \s* is
\* greedy and gives characters back until `.` finds one that is no newline
ReasoningStarts(text, p) ==
    { s \in (p + 10)..SkipSpace(text, p + 10) :
          s <= Len(text) /\ text[s] # "\n" }

\* /REASONING:\s*(.+?)(?:\n|$)/i anchored at p matches
ReasoningMatchAt(text, p) ==
    /\ MatchAt(text, p, <<"r","e","a","s","o","n","i","n","g",":">>)
    /\ ReasoningStarts(text, p) # {}

\* the end of the lazy capture started at s: just before the next newline
RECURSIVE LineEnd(_, _)
LineEnd(text, s) ==
    IF s < Len(text) /\ text[s + 1] # "\n" THEN LineEnd(text, s + 1) ELSE s

Max(S) == CHOOSE m \in S : \A n \in S : n <= m
Min(S) == CHOOSE m \in S : \A n \in S : m <= n

\* Capitalize that keeps the reply's own letter case
CapitalizeAsWritten(s) == s

\* intentMatch[1].charAt(0).toUpperCase() + intentMatch[1].slice(1).toLowerCase()
Capitalize(s) == <<UpperChar(s[1])>> \o toLowerCase(Tail(s))

DefaultIntent == <<"M","e","d","i","u","m">>
\* DefaultReasoning as the catch block of parseAIResponse words it
DefaultReasoningOfCatch == <<"U","n","a","b","l","e"," ","t","o"," ","p","a","r","s","e"," ","A","I"," ","r","e","s","p","o","n","s","e">>

\* the reasoning of a reply without a REASONING line
DefaultReasoning == <<"A","I"," ","a","n","a","l","y","s","i","s"," ","c","o","m","p","l","e","t","e","d">>

parseIntent(response) ==
    LET hits == { p \in 1..Len(response) : IntentMatchAt(response, p) } IN
    IF hits = {} THEN DefaultIntent
    ELSE LET p == Min(hits)
             q == SkipSpace(response, p + 7)
             w == CHOOSE k \in 1..Len(IntentWords) :
                      /\ MatchAt(response, q, IntentWords[k])
                      /\ \A j \in 1..(k - 1) :
                            ~MatchAt(response, q, IntentWords[j])
         IN  Capitalize(SubSeq(response, q, q + Len(IntentWords[w]) - 1))

\* parseReasoning that reads the REASONING line only of a reply that holds a
\* valid INTENT token
parseReasoningAfterIntent(response) ==
    LET hits == { p \in 1..Len(response) : ReasoningMatchAt(response, p) } IN
    IF hits = {} \/ ~(\E p \in 1..Len(response) : IntentMatchAt(response, p))
    THEN DefaultReasoning
    ELSE LET p == Min(hits)
             s == Max(ReasoningStarts(response, p))
         IN  trim(SubSeq(response, s, LineEnd(response, s)))

parseReasoning(response) ==
    LET hits == { p \in 1..Len(response) : ReasoningMatchAt(response, p) } IN
    IF hits = {} THEN DefaultReasoning
    ELSE LET p == Min(hits)
             s == Max(ReasoningStarts(response, p))
         IN  trim(SubSeq(response, s, LineEnd(response, s)))

parseAIResponse(response) ==
    [intent |-> parseIntent(response), reasoning |-> parseReasoning(response)]

\* mapping[intent] || 30
mapIntentToScore(intent) ==
    IF intent = <<"H","i","g","h">> THEN 50
    ELSE IF intent = <<"M","e","d","i","u","m">> THEN 30
    ELSE IF intent = <<"L","o","w">> THEN 10
    ELSE 30

----------------------------------------------------------------------------
(* aiScoringService.js: heuristic fallback *)

strongRoleKeywords ==
    << <<"c","e","o">>, <<"c","t","o">>, <<"f","o","u","n","d","e","r">>, <<"d","i","r","e","c","t","o","r">>, <<"h","e","a","d">> >>

\* keyword => lead.role?.toLowerCase().includes(keyword), over the keywords
\* hasStrongRole that also looks for the keywords in the lead's biography
hasStrongRoleOrBio(lead) ==
    \/ /\ lead.role.t = "str"
       /\ SomeIncluded(strongRoleKeywords, toLowerCase(lead.role.v))
    \/ /\ lead.linkedin_bio.t = "str"
       /\ SomeIncluded(strongRoleKeywords, toLowerCase(lead.linkedin_bio.v))

hasStrongRole(lead) ==
    /\ lead.role.t = "str"
    /\ SomeIncluded(strongRoleKeywords, toLowerCase(lead.role.v))

\* useCase => lead.industry?.toLowerCase().includes(useCase.toLowerCase())
hasRelevantIndustry(lead, offer) ==
    /\ lead.industry.t = "str"
    /\ \E k \in 1..Len(offer.ideal_use_cases.v) :
          includes(toLowerCase(lead.industry.v),
                   toLowerCase(offer.ideal_use_cases.v[k].v))

\* lead.role.toLowerCase is not a function; offer.ideal_use_cases is not an
\* array; lead.industry.toLowerCase is not a function
getFallbackScoreThrows(lead, offer) ==
    \/ lead.role.t = "num"
    \/ offer.ideal_use_cases.t # "arr"
    \/ Len(offer.ideal_use_cases.v) > 0 /\ lead.industry.t = "num"

getFallbackScore(lead, offer) ==
    IF hasStrongRole(lead) /\ hasRelevantIndustry(lead, offer)
    THEN [intent |-> <<"H","i","g","h">>, score |-> 50,
          reasoning |-> <<"S","t","r","o","n","g"," ","i","n","d","i","c","a","t","o","r","s",":"," ","r","e","l","e","v","a","n","t"," ","r","o","l","e"," ","a","n","d"," ","i","n","d","u","s","t","r","y"," ","m","a","t","c","h">>]
    ELSE IF hasStrongRole(lead) \/ hasRelevantIndustry(lead, offer)
    THEN [intent |-> <<"M","e","d","i","u","m">>, score |-> 30,
          reasoning |-> <<"M","o","d","e","r","a","t","e"," ","i","n","d","i","c","a","t","o","r","s"," ","p","r","e","s","e","n","t">>]
    ELSE [intent |-> <<"L","o","w">>, score |-> 10,
          reasoning |-> <<"L","i","m","i","t","e","d"," ","i","n","d","i","c","a","t","o","r","s"," ","o","f"," ","s","t","r","o","n","g"," ","f","i","t">>]

\* FallbackCompletion of a catch block that passes the error on
FallbackCompletionRethrow(lead, offer) == Throw("Error")

\* the catch block of calculateAIScore, and its no-provider branch (whose
\* throw lands in that catch block, which calls getFallbackScore again)
FallbackCompletion(lead, offer) ==
    IF getFallbackScoreThrows(lead, offer)
    THEN Throw("TypeError")
    ELSE Return(getFallbackScore(lead, offer))

----------------------------------------------------------------------------
(* aiScoringService.js: the oracle calls *)

\* offer.value_props.join / offer.ideal_use_cases.join is not a function
constructPromptThrows(offer) ==
    \/ offer.value_props.t # "arr"
    \/ offer.ideal_use_cases.t # "arr"

\* the part of calculateOpenAIScore / calculateGeminiScore after the reply:
\* content.trim(), parseAIResponse, mapIntentToScore; a rejected call or a
\* reply without the expected shape throws, and calculateAIScore's catch
\* block turns to the fallback
ReplyCompletion(lead, offer, reply) ==
    IF reply.kind = "text"
    THEN LET parsed == parseAIResponse(trim(reply.text)) IN
         Return([intent |-> parsed.intent,
                 score |-> mapIntentToScore(parsed.intent),
                 reasoning |-> parsed.reasoning])
    ELSE FallbackCompletion(lead, offer)

----------------------------------------------------------------------------
(* scoringService.js *)

\* BreakdownParts that lists every sub-score, the zero ones too
BreakdownPartsWithZeros(ruleResult) ==
    << <<"r","o","l","e"," ","r","e","l","e","v","a","n","c","e"," ","(">> \o NumToStr(ruleResult.roleScore) \o <<" ","p","t","s",")">>,
       <<"i","n","d","u","s","t","r","y"," ","m","a","t","c","h"," ","(">> \o NumToStr(ruleResult.industryScore)
       \o <<" ","p","t","s",")">>,
       <<"d","a","t","a"," ","c","o","m","p","l","e","t","e","n","e","s","s"," ","(">> \o NumToStr(ruleResult.completenessScore)
       \o <<" ","p","t","s",")">> >>

\* the parts array of getRuleBreakdown
BreakdownParts(ruleResult) ==
    (IF ruleResult.roleScore > 0
     THEN << <<"r","o","l","e"," ","r","e","l","e","v","a","n","c","e"," ","(">> \o NumToStr(ruleResult.roleScore)
             \o <<" ","p","t","s",")">> >>
     ELSE <<>>)
    \o (IF ruleResult.industryScore > 0
        THEN << <<"i","n","d","u","s","t","r","y"," ","m","a","t","c","h"," ","(">> \o NumToStr(ruleResult.industryScore)
                \o <<" ","p","t","s",")">> >>
        ELSE <<>>)
    \o (IF ruleResult.completenessScore > 0
        THEN << <<"d","a","t","a"," ","c","o","m","p","l","e","t","e","n","e","s","s"," ","(">>
                \o NumToStr(ruleResult.completenessScore) \o <<" ","p","t","s",")">> >>
        ELSE <<>>)

getRuleBreakdown(ruleResult) ==
    IF Len(BreakdownParts(ruleResult)) > 0
    THEN join(BreakdownParts(ruleResult), <<","," ">>)
    ELSE <<"n","o"," ","r","u","l","e"," ","m","a","t","c","h","e","s">>

\* FinalIntent taken from the band of the final score instead
FinalIntentByBand(ruleResult, aiResult) ==
    IF ruleResult.totalScore + aiResult.score >= 70 THEN <<"H","i","g","h">>
    ELSE IF ruleResult.totalScore + aiResult.score >= 40 THEN <<"M","e","d","i","u","m">>
    ELSE <<"L","o","w">>

\* const intent = aiResult.intent
FinalIntent(ruleResult, aiResult) == aiResult.intent

\* FinalScore with the rule components counted on top of their total
FinalScoreDoubleCount(ruleResult, aiResult) ==
    ruleResult.totalScore + ruleResult.roleScore + ruleResult.industryScore
    + aiResult.score

\* const finalScore = ruleResult.totalScore + aiResult.score
FinalScore(ruleResult, aiResult) == ruleResult.totalScore + aiResult.score

\* the object scoreLead returns: the lead's own fields and the scoring fields
ScoredLead(lead, ruleResult, aiResult) ==
    [intent |-> FinalIntent(ruleResult, aiResult),
     score |-> FinalScore(ruleResult, aiResult),
     reasoning |-> aiResult.reasoning \o <<" ","R","u","l","e","-","b","a","s","e","d"," ","a","n","a","l","y","s","i","s",":"," ">>
                   \o getRuleBreakdown(ruleResult),
     ruleScore |-> ruleResult.totalScore,
     aiScore |-> aiResult.score,
     scoreBreakdown |-> ruleResult] @@ lead

AppError(message, statusCode) ==
    [message |-> message, statusCode |-> statusCode]

\* how the promise of scoreLead settles, given how calculateAIScore ended
scoreLead(lead, of, aiResult) ==
    IF aiResult.status = "fulfilled"
    THEN Return(ScoredLead(lead, calculateRuleScore(lead, of),
                           aiResult.value))
    ELSE Throw(AppError("Failed to score lead", 500))

----------------------------------------------------------------------------
(* csvParser.js *)

\* the loop of validateLead returns false at the first falsy field;
\* lead[field].trim() of a truthy non-string reached before that is not a
\* function
validateLeadThrows(lead) ==
    \E k \in 1..Len(requiredFields) :
        /\ lead[requiredFields[k]].t = "num"
        /\ \A j \in 1..(k - 1) :
              /\ lead[requiredFields[j]].t = "str"
              /\ Len(trim(lead[requiredFields[j]].v)) > 0

\* validateLead that takes a blank field as present
validateLeadUntrimmed(lead) ==
    \A k \in 1..Len(requiredFields) : Truthy(lead[requiredFields[k]])

validateLead(lead) ==
    \A k \in 1..Len(requiredFields) :
        /\ Truthy(lead[requiredFields[k]])
        /\ Len(trim(lead[requiredFields[k]].v)) > 0

----------------------------------------------------------------------------
(* Lead.js, Offer.js: documents and queries *)

IsDecimal(s) ==
    /\ s # <<>>
    /\ \A k \in 1..Len(s) : \E d \in 1..Len(DigitChars) : DigitChars[d] = s[k]

\* the Number cast of a column's text: a string of decimal digits casts to
\* its value
RECURSIVE castNumber(_)
castNumber(s) ==
    IF s = <<>> THEN 0
    ELSE 10 * castNumber(SubSeq(s, 1, Len(s) - 1))
         + (CHOOSE d \in 0..9 : DigitChars[d + 1] = s[Len(s)])

\* the record has a `score` column whose text is no number, or a number
\* outside min: 0, max: 100: the document fails validation
ScoreColumnInvalid(record) ==
    /\ "score" \in DOMAIN record
    /\ \/ ~IsDecimal(record.score.v)
       \/ castNumber(record.score.v) > 100

\* the document insertMany creates from { ...lead, offerId, batchId }: the
\* record's columns cast by the schema, the schema's defaults for the paths
\* the record lacks. Of the columns a file may carry beyond the six required
\* ones the model follows `score`.
LeadDocument(record, id, offerId, batchId) ==
    [_id |-> id,
     name |-> Str(trim(record.name.v)),
     role |-> Str(trim(record.role.v)),
     company |-> Str(trim(record.company.v)),
     industry |-> Str(trim(record.industry.v)),
     location |-> Str(trim(record.location.v)),
     linkedin_bio |-> Str(trim(record.linkedin_bio.v)),
     intent |-> Null,
     score |-> IF "score" \in DOMAIN record
               THEN castNumber(record.score.v) ELSE 0,
     reasoning |-> Undef,
     ruleScore |-> 0,
     aiScore |-> 0,
     batchId |-> batchId,
     offerId |-> offerId]

\* the document Offer.create makes of a request body; _id is its position
\* in creation order
OfferDocument(body, id) ==
    [_id |-> id, name |-> body.name, value_props |-> body.value_props,
     ideal_use_cases |-> body.ideal_use_cases]

\* Offer.findOne().sort({ createdAt: -1 })
findLatestOffer(offers) ==
    IF offers = <<>> THEN Null ELSE offers[Len(offers)]

\* Offer.findById(id)
findById(offers, id) ==
    IF id \in DOMAIN offers THEN offers[id] ELSE Null

\* Lead.find({ batchId })
findByBatch(docs, batchId) ==
    SelectSeq(docs, LAMBDA d : d.batchId = batchId)

\* the offer the scoring request reads, were it the newest offer
BatchOfferLatest(offers, found) == findLatestOffer(offers)

\* Offer.findById(leads[0].offerId)
BatchOffer(offers, found) == findById(offers, found[1].offerId)

\* the $set of the scoring request's updateOne
SetFields(doc, lead) ==
    [doc EXCEPT !.intent = lead.intent,
                !.score = lead.score,
                !.reasoning = lead.reasoning,
                !.ruleScore = lead.ruleScore,
                !.aiScore = lead.aiScore]

\* Lead.updateOne({ _id }, { $set }) when it modifies the document it
\* matches
updateOne(docs, id, lead) ==
    [k \in DOMAIN docs |->
        IF docs[k]._id = id THEN SetFields(docs[k], lead) ELSE docs[k]]

----------------------------------------------------------------------------
(* State *)

VARIABLES
    env,        \* process.env: AI_PROVIDER, OPENAI_API_KEY, GEMINI_API_KEY
    openai,     \* the module's OpenAI client is non-null
    gemini,     \* the module's Gemini client is non-null
    batch,      \* the scoreLeads call: "idle", "pending", "fulfilled", "rejected"
    leads,      \* its leads argument
    offer,      \* its offer argument
    pc,         \* per lead: where its scoreLead call is suspended
    via,        \* per lead: the branch calculateAIScore took
    model,      \* per lead: index in modelNames of calculateGeminiScore's `model`
    calls,      \* per lead: the requests sent to the oracle so far
    ai,         \* per lead: the state of the promise calculateAIScore returned
    scored,     \* per lead: the state of the promise scoreLead returned
    values,     \* the result array Promise.all fills
    returned,   \* what scoreLeads handed to its caller
    call,       \* the last call of a rule-scoring function from outside
    offersDb,   \* the offers collection, in creation order
    leadsDb,    \* the leads collection, in insertion order
    uploads,    \* the upload requests received so far
    requests    \* the scoring requests received so far

vars == <<env, openai, gemini, batch, leads, offer, pc, via, model, calls, ai,
          scored, values, returned, call, offersDb, leadsDb, uploads,
          requests>>

\* the length of modelNames in calculateGeminiScore
NumModels == 4

Hole == [filled |-> FALSE, value |-> <<>>]

\* PlaceResult that fills the array in the order the promises settle
PlaceInArrivalOrder(vals, i, v) ==
    LET free == Min({ k \in 1..Len(vals) : ~vals[k].filled }) IN
    [vals EXCEPT ![free] = [filled |-> TRUE, value |-> v]]

\* Promise.all stores a fulfilled promise's value at the promise's index
PlaceResult(vals, i, v) == [vals EXCEPT ![i] = [filled |-> TRUE, value |-> v]]

Request(api, m, body) == [api |-> api, model |-> m, body |-> body]

\* a scoreLead call as a record of the per-lead variables
Task(p, v, m, c, a) ==
    [pc |-> p, via |-> v, model |-> m, calls |-> c, ai |-> a]

\* StartOpenAI that sends the prompt a second time as a retry
StartOpenAIWithRetry(lead, of) ==
    IF constructPromptThrows(of)
    THEN Task("done", "openai", 0, <<>>, FallbackCompletion(lead, of))
    ELSE Task("await_openai", "openai", 0,
              <<Request("openai", 0, "prompt"),
                Request("openai", 0, "prompt")>>, Pending)

\* calculateOpenAIScore up to its await: build the prompt, send it
StartOpenAI(lead, of) ==
    IF constructPromptThrows(of)
    THEN Task("done", "openai", 0, <<>>, FallbackCompletion(lead, of))
    ELSE Task("await_openai", "openai", 0,
              <<Request("openai", 0, "prompt")>>, Pending)

\* calculateGeminiScore up to its first await: the probe of modelNames[0]
StartGemini(lead, of) ==
    Task("await_probe", "gemini", 1, <<Request("gemini", 1, "Hello")>>,
         Pending)

\* calculateAIScore up to its first suspension
StartLead(lead, of) ==
    LET provider == SelectProvider(openai, gemini, aiProvider(env)) IN
    IF provider = "openai" THEN StartOpenAI(lead, of)
    ELSE IF provider = "gemini" THEN StartGemini(lead, of)
    ELSE Task("done", "none", 0, <<>>, FallbackCompletion(lead, of))

\* the promise of scoreLead while calculateAIScore is in state aiResult
ScoredOf(lead, of, aiResult) ==
    IF aiResult.status = "pending" THEN Pending
    ELSE scoreLead(lead, of, aiResult)

\* the values array after the promises already settled have been collected
RECURSIVE Collect(_, _, _)
Collect(vals, tasks, i) ==
    IF i > Len(tasks) THEN vals
    ELSE Collect(IF tasks[i].status = "fulfilled"
                 THEN PlaceResult(vals, i, tasks[i].value)
                 ELSE vals,
                 tasks, i + 1)

\* scoreLeads(leads, offer): leads.map(lead => scoreLead(lead, offer)) runs
\* every scoreLead to its first suspension, then Promise.all awaits them
ScoreLeads(ls, of) ==
    /\ batch = "idle"
    /\ LET tasks == [i \in 1..Len(ls) |-> StartLead(ls[i], of)] IN
       /\ pc' = [i \in 1..Len(ls) |-> tasks[i].pc]
       /\ via' = [i \in 1..Len(ls) |-> tasks[i].via]
       /\ model' = [i \in 1..Len(ls) |-> tasks[i].model]
       /\ calls' = [i \in 1..Len(ls) |-> tasks[i].calls]
       /\ ai' = [i \in 1..Len(ls) |-> tasks[i].ai]
    /\ scored' = [i \in 1..Len(ls) |-> ScoredOf(ls[i], of, ai'[i])]
    /\ values' = Collect([i \in 1..Len(ls) |-> Hole], scored', 1)
    /\ batch' = "pending"
    /\ leads' = ls
    /\ offer' = of
    /\ returned' = <<>>
    /\ UNCHANGED <<env, openai, gemini, call,
                   offersDb, leadsDb, uploads, requests>>

\* calculateAIScore of lead i settles with aiResult, scoreLead resumes and
\* settles, and Promise.all collects its value
Settle(i, aiResult) ==
    /\ pc' = [pc EXCEPT ![i] = "done"]
    /\ ai' = [ai EXCEPT ![i] = aiResult]
    /\ scored' = [scored EXCEPT ![i] = scoreLead(leads[i], offer, ai'[i])]
    /\ values' = IF scored'[i].status = "fulfilled"
                 THEN PlaceResult(values, i, scored'[i].value)
                 ELSE values

\* the OpenAI request of lead i completes
OpenAIReply(i, reply) ==
    /\ i \in DOMAIN pc
    /\ pc[i] = "await_openai"
    /\ Settle(i, ReplyCompletion(leads[i], offer, reply))
    /\ UNCHANGED <<env, openai, gemini, batch, leads, offer, via, model,
                   calls, returned, call,
                   offersDb, leadsDb, uploads, requests>>

\* the probe model.generateContent('Hello') of lead i completes: on success
\* the loop breaks; on failure it goes on to the next name, and after the
\* last name it ends with `model` still set to the last model tried
GeminiProbeReply(i, succeeded) ==
    /\ i \in DOMAIN pc
    /\ pc[i] = "await_probe"
    /\ IF ~succeeded /\ model[i] < NumModels
       THEN /\ model' = [model EXCEPT ![i] = model[i] + 1]
            /\ calls' = [calls EXCEPT
                           ![i] = Append(@, Request("gemini", model[i] + 1,
                                                    "Hello"))]
            /\ UNCHANGED <<pc, ai, scored, values>>
       ELSE IF constructPromptThrows(offer)
       THEN /\ Settle(i, FallbackCompletion(leads[i], offer))
            /\ UNCHANGED <<model, calls>>
       ELSE /\ pc' = [pc EXCEPT ![i] = "await_gemini"]
            /\ calls' = [calls EXCEPT
                           ![i] = Append(@, Request("gemini", model[i],
                                                    "prompt"))]
            /\ UNCHANGED <<model, ai, scored, values>>
    /\ UNCHANGED <<env, openai, gemini, batch, leads, offer, via, returned,
                   call,
                   offersDb, leadsDb, uploads, requests>>

\* model.generateContent(fullPrompt) of lead i completes
GeminiReply(i, reply) ==
    /\ i \in DOMAIN pc
    /\ pc[i] = "await_gemini"
    /\ Settle(i, ReplyCompletion(leads[i], offer, reply))
    /\ UNCHANGED <<env, openai, gemini, batch, leads, offer, via, model,
                   calls, returned, call,
                   offersDb, leadsDb, uploads, requests>>

\* what scoreLeads returns once every promise is fulfilled
BatchResult(vals) == [i \in 1..Len(vals) |-> vals[i].value]

\* AllFulfilled as Promise.allSettled would have it: settled either way
AllSettled(promises) ==
    \A i \in DOMAIN promises : promises[i].status # "pending"

\* Promise.all fulfils once every promise it was given is fulfilled
AllFulfilled(promises) ==
    \A i \in DOMAIN promises : promises[i].status = "fulfilled"

\* await Promise.all(scorePromises) resumes with the results
PromiseAllFulfil ==
    /\ batch = "pending"
    /\ AllFulfilled(scored)
    /\ batch' = "fulfilled"
    /\ returned' = BatchResult(values)
    /\ UNCHANGED <<env, openai, gemini, leads, offer, pc, via, model, calls,
                   ai, scored, values, call,
                   offersDb, leadsDb, uploads, requests>>

\* await Promise.all(scorePromises) throws: the catch block of scoreLeads
PromiseAllReject ==
    /\ batch = "pending"
    /\ \E i \in DOMAIN scored : scored[i].status = "rejected"
    /\ batch' = "rejected"
    /\ returned' = AppError("Failed to score leads", 500)
    /\ UNCHANGED <<env, openai, gemini, leads, offer, pc, via, model, calls,
                   ai, scored, values, call,
                   offersDb, leadsDb, uploads, requests>>

----------------------------------------------------------------------------
(* ruleScoringService.js: the exported functions called on their own *)

\* a call of function fn with arguments args that ended as result
Called(fn, args, result) == [fn |-> fn, args |-> args, result |-> result]

NoCall == Called("none", <<>>, Pending)

\* how a call ends that throws when throws holds and else returns value
Completion(throws, value) ==
    IF throws THEN Throw("TypeError") ELSE Return(value)

\* scoreRoleRelevance(role)
CallScoreRoleRelevance ==
    /\ call.fn = "scoreRoleRelevance"
    /\ call.result = Pending
    /\ LET role == call.args[1] IN
       call' = [call EXCEPT
                  !.result = Completion(scoreRoleRelevanceThrows(role),
                                        scoreRoleRelevance(role))]
    /\ UNCHANGED <<env, openai, gemini, batch, leads, offer, pc, via, model,
                   calls, ai, scored, values, returned,
                   offersDb, leadsDb, uploads, requests>>

\* scoreIndustryMatch(industry, idealUseCases)
CallScoreIndustryMatch ==
    /\ call.fn = "scoreIndustryMatch"
    /\ call.result = Pending
    /\ LET industry == call.args[1]
           idealUseCases == call.args[2]
       IN  call' = [call EXCEPT
                      !.result =
                          Completion(scoreIndustryMatchThrows(industry,
                                                              idealUseCases),
                                     scoreIndustryMatch(industry,
                                                        idealUseCases))]
    /\ UNCHANGED <<env, openai, gemini, batch, leads, offer, pc, via, model,
                   calls, ai, scored, values, returned,
                   offersDb, leadsDb, uploads, requests>>

\* scoreDataCompleteness(lead)
CallScoreDataCompleteness ==
    /\ call.fn = "scoreDataCompleteness"
    /\ call.result = Pending
    /\ LET lead == call.args[1] IN
       call' = [call EXCEPT
                  !.result = Completion(scoreDataCompletenessThrows(lead),
                                        scoreDataCompleteness(lead))]
    /\ UNCHANGED <<env, openai, gemini, batch, leads, offer, pc, via, model,
                   calls, ai, scored, values, returned,
                   offersDb, leadsDb, uploads, requests>>

\* calculateRuleScore(lead, offer): its try / catch lets nothing out
CallCalculateRuleScore ==
    /\ call.fn = "calculateRuleScore"
    /\ call.result = Pending
    /\ call' = [call EXCEPT
                  !.result = Return(calculateRuleScore(call.args[1],
                                                       call.args[2]))]
    /\ UNCHANGED <<env, openai, gemini, batch, leads, offer, pc, via, model,
                   calls, ai, scored, values, returned,
                   offersDb, leadsDb, uploads, requests>>

----------------------------------------------------------------------------
(* leadsController.js, offerController.js: the request handlers *)

\* the most offers created, files uploaded and scoring requests made
MaxOffers == 2
MaxUploads == 1
MaxRequests == 2

\* POST /api/offer with a body that has its three fields
CreateOffer(body) ==
    /\ Len(offersDb) < MaxOffers
    /\ Truthy(body.name)
    /\ Truthy(body.value_props)
    /\ Truthy(body.ideal_use_cases)
    /\ offersDb' = Append(offersDb, OfferDocument(body, Len(offersDb) + 1))
    /\ UNCHANGED <<leadsDb, uploads, requests>>
    /\ UNCHANGED <<env, openai, gemini, batch, leads, offer, pc, via, model,
                   calls, ai, scored, values, returned, call>>

\* an upload request: where it is suspended, the parsed file, the records
\* that passed validateLead, the offer it read, its batch id, and the status
\* code of its response (0 while there is none)
UploadRun(p, file, validLeads, offerId, batchId, statusCode) ==
    [pc |-> p, file |-> file, validLeads |-> validLeads,
     offerId |-> offerId, batchId |-> batchId, statusCode |-> statusCode]

\* POST /api/leads/upload with a file, up to `await Lead.insertMany`: the
\* newest offer is read, the file parsed and its records validated. The
\* batch id, built from the clock and a random string, is modelled as a
\* fresh number.
UploadLeads(file) ==
    /\ Len(uploads) < MaxUploads
    /\ LET latest == findLatestOffer(offersDb)
           validLeads == SelectSeq(file, validateLead)
       IN  uploads' = Append(uploads,
             IF latest = Null
             THEN UploadRun("done", file, <<>>, 0, 0, 404)
             ELSE IF file = <<>> \/ validLeads = <<>>
             THEN UploadRun("done", file, <<>>, latest._id, 0, 400)
             ELSE UploadRun("insert", file, validLeads, latest._id,
                            Len(uploads) + 1, 0))
    /\ UNCHANGED <<offersDb, leadsDb, requests>>
    /\ UNCHANGED <<env, openai, gemini, batch, leads, offer, pc, via, model,
                   calls, ai, scored, values, returned, call>>

\* Lead.insertMany of upload u resolves, or rejects because a document fails
\* validation, in which case none is saved and the error handler answers 500
InsertMany(u) ==
    /\ u \in DOMAIN uploads
    /\ uploads[u].pc = "insert"
    /\ LET run == uploads[u]
           valid == run.validLeads
       IN  IF \E k \in DOMAIN valid : ScoreColumnInvalid(valid[k])
           THEN /\ uploads' = [uploads EXCEPT ![u].pc = "done",
                                              ![u].statusCode = 500]
                /\ UNCHANGED leadsDb
           ELSE /\ leadsDb' =
                      leadsDb \o
                      [k \in 1..Len(valid) |->
                          LeadDocument(valid[k], Len(leadsDb) + k,
                                       run.offerId, run.batchId)]
                /\ uploads' = [uploads EXCEPT ![u].pc = "done",
                                              ![u].statusCode = 201]
    /\ UNCHANGED <<offersDb, requests>>
    /\ UNCHANGED <<env, openai, gemini, batch, leads, offer, pc, via, model,
                   calls, ai, scored, values, returned, call>>

\* how calculateAIScore ends for a lead whose oracle call, if one is made,
\* is answered with reply
AIScoreCompletion(lead, of, reply) ==
    IF \/ SelectProvider(openai, gemini, aiProvider(env)) = "none"
       \/ constructPromptThrows(of)
    THEN FallbackCompletion(lead, of)
    ELSE ReplyCompletion(lead, of, reply)

\* scoreLeads(ls, of) from its call to its completion, the oracle answering
\* the call for lead i with replies[i]
scoreLeadsCompletion(ls, of, replies) ==
    LET promises ==
            [i \in 1..Len(ls) |->
                scoreLead(ls[i], of,
                          AIScoreCompletion(ls[i], of, replies[i]))]
    IN  IF AllFulfilled(promises)
        THEN Return([i \in 1..Len(ls) |-> promises[i].value])
        ELSE Throw(AppError("Failed to score leads", 500))

NoResponse == [status |-> "none", statusCode |-> 0, leads |-> <<>>]

\* the response of the error handler to an AppError
ErrorResponse(statusCode) ==
    [status |-> IF statusCode \in 400..499 THEN "fail" ELSE "error",
     statusCode |-> statusCode, leads |-> <<>>]

\* the fields of a scored lead the success response reports
Reported(lead) ==
    [_id |-> lead._id, intent |-> lead.intent, score |-> lead.score,
     reasoning |-> lead.reasoning, ruleScore |-> lead.ruleScore,
     aiScore |-> lead.aiScore, batchId |-> lead.batchId,
     offerId |-> lead.offerId]

\* res.status(200).json({ status: 'success', data: { ..., leads } })
SuccessResponse(scoredLeads) ==
    [status |-> "success", statusCode |-> 200,
     leads |-> [i \in 1..Len(scoredLeads) |-> Reported(scoredLeads[i])]]

\* a scoring request: where it is suspended and its local variables
ScoreRun(p, batchId, found, of, scoredLeads, i, updates, response) ==
    [pc |-> p, batchId |-> batchId, leads |-> found, offer |-> of,
     scoredLeads |-> scoredLeads, i |-> i,
     successfulUpdates |-> updates, response |-> response]

\* POST /api/score with a batch id, up to the result of Lead.find
ScoreRequest(batchId) ==
    /\ Len(requests) < MaxRequests
    /\ LET found == findByBatch(leadsDb, batchId) IN
       requests' = Append(requests,
         IF found = <<>>
         THEN ScoreRun("done", batchId, found, Null, <<>>, 0, 0,
                       ErrorResponse(404))
         ELSE ScoreRun("find_offer", batchId, found, Null, <<>>, 0, 0,
                       NoResponse))
    /\ UNCHANGED <<offersDb, leadsDb, uploads>>
    /\ UNCHANGED <<env, openai, gemini, batch, leads, offer, pc, via, model,
                   calls, ai, scored, values, returned, call>>

\* Offer.findById of request r resolves, and scoreLeads is called
FindOfferResolved(r) ==
    /\ r \in DOMAIN requests
    /\ requests[r].pc = "find_offer"
    /\ LET of == BatchOffer(offersDb, requests[r].leads) IN
       requests' = [requests EXCEPT
                      ![r] = IF of = Null
                             THEN [@ EXCEPT !.pc = "done",
                                            !.response = ErrorResponse(404)]
                             ELSE [@ EXCEPT !.pc = "scoring", !.offer = of]]
    /\ UNCHANGED <<offersDb, leadsDb, uploads>>
    /\ UNCHANGED <<env, openai, gemini, batch, leads, offer, pc, via, model,
                   calls, ai, scored, values, returned, call>>

\* `await scoreLeads(leads, offer)` of request r resolves; a rejection goes
\* through asyncHandler to the error handler, otherwise the update loop
\* issues its first updateOne
ScoreLeadsResolved(r, replies) ==
    /\ r \in DOMAIN requests
    /\ requests[r].pc = "scoring"
    /\ Len(replies) = Len(requests[r].leads)
    /\ LET result == scoreLeadsCompletion(requests[r].leads,
                                          requests[r].offer, replies)
       IN  requests' = [requests EXCEPT
                          ![r] = IF result.status = "fulfilled"
                                 THEN [@ EXCEPT !.pc = "updating",
                                                !.scoredLeads = result.value,
                                                !.i = 1]
                                 ELSE [@ EXCEPT !.pc = "done",
                                                !.response =
                                                    ErrorResponse(500)]]
    /\ UNCHANGED <<offersDb, leadsDb, uploads>>
    /\ UNCHANGED <<env, openai, gemini, batch, leads, offer, pc, via, model,
                   calls, ai, scored, values, returned, call>>

\* the updateOne of request r for scoredLeads[i] completes: it modified the
\* document, or matched or changed none (modifiedCount 0), or it threw. The
\* loop logs the last two and goes on; after the last lead the response is
\* sent.
UpdateOneResolved(r, outcome) ==
    /\ r \in DOMAIN requests
    /\ requests[r].pc = "updating"
    /\ LET run == requests[r]
           lead == run.scoredLeads[run.i]
           last == run.i = Len(run.scoredLeads)
       IN  /\ leadsDb' = IF outcome = "modified"
                         THEN updateOne(leadsDb, lead._id, lead)
                         ELSE leadsDb
           /\ requests' = [requests EXCEPT
                  ![r] = [@ EXCEPT
                            !.successfulUpdates =
                                IF outcome = "modified" THEN @ + 1 ELSE @,
                            !.i = IF last THEN @ ELSE @ + 1,
                            !.pc = IF last THEN "done" ELSE "updating",
                            !.response =
                                IF last THEN SuccessResponse(run.scoredLeads)
                                ELSE @]]
    /\ UNCHANGED <<offersDb, uploads>>
    /\ UNCHANGED <<env, openai, gemini, batch, leads, offer, pc, via, model,
                   calls, ai, scored, values, returned, call>>

----------------------------------------------------------------------------
(* Inputs *)

ValidOpenAIKey == <<"s","k","-","1">>
ValidGeminiKey == <<"A","I","z","a">>

Env(provider, openaiKey, geminiKey) ==
    [AI_PROVIDER |-> provider, OPENAI_API_KEY |-> openaiKey,
     GEMINI_API_KEY |-> geminiKey]

\* environments of the batch specification: OpenAI alone, both providers
\* with Gemini selected, and no provider
Envs ==
    { Env(Undef, Str(ValidOpenAIKey), Undef),
      Env(Str(<<"g","e","m","i","n","i">>), Str(ValidOpenAIKey), Str(ValidGeminiKey)),
      Env(Undef, Undef, Undef) }

\* environments of the single-lead specification: every kind of key
AllEnvs ==
    { Env(p, o, g) :
        p \in {Undef, Str(<<"o","p","e","n","a","i">>), Str(<<"G","E","M","I","N","I">>), Str(<<"c","l","a","u","d","e">>)},
        o \in {Undef, Str(<<" "," ">>), Str(OpenAISentinel), Str(GeminiSentinel),
               Str(ValidOpenAIKey)},
        g \in {Undef, Str(<<" "," ">>), Str(GeminiSentinel),
               Str(ValidGeminiKey)} }

Lead(id, name, role, company, industry, location) ==
    [_id |-> id, name |-> name, role |-> role, company |-> company,
     industry |-> industry, location |-> location, linkedin_bio |-> Undef]

\* leads of the batch specification; the third has a non-string role
LeadSet ==
    { Lead(1, Str(<<"A","v","a">>), Str(<<"C","E","O">>), Str(<<"F","l","o","w">>), Str(<<"B","2","B"," ","S","a","a","S">>),
           Str(<<"S","F">>)),
      Lead(2, Str(<<"B","o">>), Str(<<"D","e","v","e","l","o","p","e","r">>), Str(<<"S","h","o","p">>), Str(<<"R","e","t","a","i","l">>),
           Str(<<"N","Y">>)),
      Lead(3, Str(<<"C","y">>), Num, Str(<<"A","c","m","e">>), Str(<<"T","e","c","h","n","o","l","o","g","y">>),
           Str(<<"L","A">>)) }

Roles ==
    {Undef, Str(<<>>), Num, Str(<<"C","E","O">>), Str(<<"D","e","v","e","l","o","p","e","r">>),
     Str(<<"S","a","l","e","s"," ","M","a","n","a","g","e","r">>), Str(<<"S","e","n","i","o","r"," ","D","i","r","e","c","t","o","r">>)}

Industries ==
    {Undef, Num, Str(<<"B","2","B"," ","S","a","a","S">>), Str(<<"R","e","t","a","i","l">>), Str(<<"T","e","c","h","n","o","l","o","g","y">>)}

\* leads of the single-lead specification
WideLeads ==
    { Lead(1, Str(<<"A","v","a">>), r, Str(<<"F","l","o","w">>), n, Str(<<"S","F">>)) :
        r \in Roles, n \in Industries }

Offer(name, valueProps, useCases) ==
    [name |-> name, value_props |-> valueProps, ideal_use_cases |-> useCases]

UseCasesMidMarket ==
    Arr(<<Str(<<"B","2","B"," ","S","a","a","S"," ","m","i","d","-","m","a","r","k","e","t">>), Str(<<"S","a","l","e","s"," ","t","e","a","m","s">>)>>)
UseCasesSaaS == Arr(<<Str(<<"S","a","a","S">>)>>)
ValueProps == Arr(<<Str(<<"2","4","/","7"," ","o","u","t","r","e","a","c","h">>), Str(<<"6","x"," ","m","o","r","e"," ","m","e","e","t","i","n","g","s">>)>>)

\* offers of the batch specification
Offers ==
    { Offer(Str(<<"O","u","t","r","e","a","c","h">>), ValueProps, UseCasesMidMarket),
      Offer(Str(<<"O","u","t","r","e","a","c","h">>), ValueProps, UseCasesSaaS) }

\* offers of the single-lead specification, two of them partial objects
WideOffers ==
    Offers \cup
    { Offer(Str(<<"O","u","t","r","e","a","c","h">>), Undef, UseCasesMidMarket),
      Offer(Str(<<"O","u","t","r","e","a","c","h">>), ValueProps, Undef) }

\* roles the rule functions are called with
RuleRoles ==
    Roles \cup
    {Null, Str(<<" "," ">>), Str(<<"C","h","i","e","f"," ","T","e","c","h","n","o","l","o","g","y"," ","O","f","f","i","c","e","r">>),
     Str(<<"H","e","a","d"," ","o","f"," ","S","a","l","e","s">>), Str(<<"D","i","r","e","c","t","o","r"," ","o","f"," ","M","a","r","k","e","t","i","n","g">>),
     Str(<<"S","e","n","i","o","r"," ","D","e","v","e","l","o","p","e","r">>), Str(<<"M","a","r","k","e","t","i","n","g"," ","L","e","a","d">>), Str(<<"D","e","s","i","g","n","e","r">>),
     Str(<<"V","I","C","E"," ","P","R","E","S","I","D","E","N","T">>), Str(<<"G","e","n","e","r","a","l"," ","M","a","n","a","g","e","r">>),
     Str(<<"L","e","a","d"," ","A","r","c","h","i","t","e","c","t">>)}

\* industries the rule functions are called with
RuleIndustries ==
    Industries \cup
    {Null, Str(<<>>), Str(<<"H","e","a","l","t","h","c","a","r","e">>), Str(<<"r","e","t","a","i","l">>), Str(<<"S","a","l","e","s">>),
     Str(<<"F","i","n","t","e","c","h">>)}

\* ideal use cases the rule functions are called with
RuleUseCases ==
    {Undef, Arr(<<>>), UseCasesMidMarket, UseCasesSaaS,
     Arr(<<Str(<<"S","a","l","e","s"," ","t","e","a","m","s">>)>>),
     Arr(<<Str(<<"R","e","t","a","i","l">>), Str(<<"B","2","B"," ","S","a","a","S"," ","m","i","d","-","m","a","r","k","e","t">>)>>),
     Arr(<<Str(<<"B","2","B"," ","S","a","a","S"," ","m","i","d","-","m","a","r","k","e","t">>), Str(<<"R","e","t","a","i","l">>)>>),
     Arr(<<Str(<<"S","a","l","e","s"," ","t","e","a","m","s">>), Str(<<"H","e","a","l","t","h","c","a","r","e"," ","c","l","i","n","i","c","s">>)>>),
     Arr(<<Str(<<"H","e","a","l","t","h","c","a","r","e"," ","c","l","i","n","i","c","s">>), Str(<<"S","a","l","e","s"," ","t","e","a","m","s">>)>>),
     Arr(<<Str(<<"S","a","l","e","s"," ","t","e","a","m","s">>), Str(<<"H","e","a","l","t","h","c","a","r","e"," ","c","l","i","n","i","c","s">>),
           Str(<<"F","i","n","t","e","c","h"," ","a","p","p","s">>)>>)}

\* a field that is populated with text, absent, empty or blank
FieldValues(text) == {Str(text), Undef, Str(<<>>), Str(<<" "," ">>)}

CompleteLead ==
    Lead(1, Str(<<"J","o","h","n"," ","D","o","e">>), Str(<<"C","E","O">>), Str(<<"T","e","c","h","C","o","r","p">>),
         Str(<<"T","e","c","h","n","o","l","o","g","y">>), Str(<<"N","e","w"," ","Y","o","r","k">>))

\* leads scoreDataCompleteness is called with: every mix of populated,
\* absent, empty and blank fields, and leads with a number in a field
CompletenessLeads ==
    { Lead(1, n, r, c, i, l) :
        n \in FieldValues(<<"J","o","h","n"," ","D","o","e">>), r \in FieldValues(<<"C","E","O">>),
        c \in FieldValues(<<"T","e","c","h","C","o","r","p">>), i \in FieldValues(<<"T","e","c","h","n","o","l","o","g","y">>),
        l \in FieldValues(<<"N","e","w"," ","Y","o","r","k">>) }
    \cup { [CompleteLead EXCEPT ![requiredFields[k]] = Num] :
             k \in 1..Len(requiredFields) }
    \cup { [CompleteLead EXCEPT !.name = Undef, !.role = Num],
           [CompleteLead EXCEPT !.name = Num, !.role = Undef] }

\* leads calculateRuleScore is called with
RuleLeads ==
    { Lead(1, n, r, Str(<<"F","l","o","w">>), i, Str(<<"S","F">>)) :
        n \in {Str(<<"A","v","a">>), Str(<<>>)},
        r \in Roles \cup {Str(<<"H","e","a","d"," ","o","f"," ","G","r","o","w","t","h">>)},
        i \in RuleIndustries }

\* offers calculateRuleScore is called with
RuleOffers ==
    { Offer(Str(<<"O","u","t","r","e","a","c","h">>), ValueProps, u) : u \in RuleUseCases }

TextReply(text) == [kind |-> "text", text |-> text]

\* the request is rejected (transport, authentication)
ErrorReply == [kind |-> "error", text |-> <<>>]

\* the request succeeds with a body that lacks the expected fields
BadShapeReply == [kind |-> "badshape", text |-> <<>>]

\* oracle outcomes of the batch specification
Replies ==
    { TextReply(<<"I","N","T","E","N","T",":"," ","H","i","g","h","\n","R","E","A","S","O","N","I","N","G",":"," ","f","i","t">>),
      TextReply(<<"n","/","a">>),
      ErrorReply }

\* oracle outcomes of the single-lead specification
WideReplies ==
    Replies \cup
    { TextReply(<<" ","i","n","t","e","n","t",":"," ","L","O","W","\n","r","e","a","s","o","n","i","n","g",":"," "," ","n","o"," ","b","u","d","g","e","t"," ","\n">>),
      TextReply(<<"R","E","A","S","O","N","I","N","G",":"," ","o","k","\n","I","N","T","E","N","T",":"," ","L","o","w">>),
      TextReply(<<"R","E","A","S","O","N","I","N","G",":"," ","o","k">>),
      TextReply(<<"I","N","T","E","N","T",":"," ","M","e","d","i","u","m">>),
      TextReply(<<"I","N","T","E","N","T",":"," ","U","n","k","n","o","w","n","\n","R","E","A","S","O","N",":"," ","n","o","n","e">>),
      BadShapeReply }

\* the most leads in a batch
MaxLeads == 2

RECURSIVE SeqsUpTo(_, _)
SeqsUpTo(S, n) ==
    IF n = 0 THEN {<<>>}
    ELSE LET shorter == SeqsUpTo(S, n - 1) IN
         shorter \cup { Append(q, x) : q \in shorter, x \in S }

\* batches whose leads are distinct documents
Batches ==
    { ls \in SeqsUpTo(LeadSet, MaxLeads) :
        \A i, j \in 1..Len(ls) : i # j => ls[i] # ls[j] }

\* a record parseCSV returns: the six required columns as text
CsvRecord(name, role, company, industry, location, bio) ==
    [name |-> Str(name), role |-> Str(role), company |-> Str(company),
     industry |-> Str(industry), location |-> Str(location),
     linkedin_bio |-> Str(bio)]

CsvAva ==
    CsvRecord(<<"A","v","a">>, <<"C","E","O">>, <<"F","l","o","w">>, <<"B","2","B"," ","S","a","a","S">>, <<"S","F">>, <<>>)
CsvBo ==
    CsvRecord(<<"B","o">>, <<"D","e","v","e","l","o","p","e","r">>, <<"S","h","o","p">>, <<"R","e","t","a","i","l">>, <<"N","Y">>, <<>>)

\* parsed files: two complete records; a record with a column named score
\* beside one whose quoted role is blanks; a single record without location
CsvFiles ==
    { <<CsvAva, CsvBo>>,
      <<CsvAva @@ [score |-> Str(<<"5","0">>)],
        [CsvBo EXCEPT !.role = Str(<<" "," ">>)]>>,
      <<[CsvBo EXCEPT !.location = Str(<<>>)]>> }

\* bodies of POST /api/offer
OfferBodies ==
    { Offer(Str(<<"O","u","t","r","e","a","c","h">>), ValueProps, UseCasesMidMarket),
      Offer(Str(<<"S","h","e","l","f">>), ValueProps, Arr(<<Str(<<"R","e","t","a","i","l">>)>>)) }

\* oracle outcomes of the request specification
StoreReplies == {TextReply(<<"I","N","T","E","N","T",":"," ","H","i","g","h","\n","R","E","A","S","O","N","I","N","G",":"," ","f","i","t">>), ErrorReply}

\* what becomes of an updateOne
UpdateOutcomes == {"modified", "unmodified", "thrown"}

\* the batch ids a scoring request may name
BatchIds == 1..MaxUploads

----------------------------------------------------------------------------
(* Specifications *)

\* the state once the module has loaded under environment e
Loaded(e) ==
    /\ env = e
    /\ openai = OpenAIClient(e)
    /\ gemini = GeminiClient(e)
    /\ batch = "idle"
    /\ leads = <<>>
    /\ offer = Undef
    /\ pc = <<>>
    /\ via = <<>>
    /\ model = <<>>
    /\ calls = <<>>
    /\ ai = <<>>
    /\ scored = <<>>
    /\ values = <<>>
    /\ returned = <<>>
    /\ offersDb = <<>>
    /\ leadsDb = <<>>
    /\ uploads = <<>>
    /\ requests = <<>>

Init == \E e \in Envs : Loaded(e) /\ call = NoCall

Next ==
    \/ \E ls \in Batches, of \in Offers : ScoreLeads(ls, of)
    \/ \E i \in 1..MaxLeads, reply \in Replies : OpenAIReply(i, reply)
    \/ \E i \in 1..MaxLeads, succeeded \in BOOLEAN :
          GeminiProbeReply(i, succeeded)
    \/ \E i \in 1..MaxLeads, reply \in Replies : GeminiReply(i, reply)
    \/ PromiseAllFulfil
    \/ PromiseAllReject

Spec == Init /\ [][Next]_vars

\* one lead at a time, over every environment, partial offers and leads
InitSingle == \E e \in AllEnvs : Loaded(e) /\ call = NoCall

NextSingle ==
    \/ \E l \in WideLeads, of \in WideOffers : ScoreLeads(<<l>>, of)
    \/ \E reply \in WideReplies : OpenAIReply(1, reply)
    \/ \E succeeded \in BOOLEAN : GeminiProbeReply(1, succeeded)
    \/ \E reply \in WideReplies : GeminiReply(1, reply)
    \/ PromiseAllFulfil
    \/ PromiseAllReject

SpecSingle == InitSingle /\ [][NextSingle]_vars

\* the calls of the rule-scoring functions a caller such as the unit tests
\* can make
RuleCalls ==
    { Called("scoreRoleRelevance", <<role>>, Pending) : role \in RuleRoles }
    \cup { Called("scoreIndustryMatch", <<industry, idealUseCases>>, Pending) :
             industry \in RuleIndustries, idealUseCases \in RuleUseCases }
    \cup { Called("scoreDataCompleteness", <<lead>>, Pending) :
             lead \in CompletenessLeads }
    \cup { Called("calculateRuleScore", <<lead, of>>, Pending) :
             lead \in RuleLeads, of \in RuleOffers }

\* one call of a rule-scoring function, with no provider configured
InitRule ==
    /\ Loaded(Env(Undef, Undef, Undef))
    /\ call \in RuleCalls

NextRule ==
    \/ CallScoreRoleRelevance
    \/ CallScoreIndustryMatch
    \/ CallScoreDataCompleteness
    \/ CallCalculateRuleScore

SpecRule == InitRule /\ [][NextRule]_vars

\* the outcomes of an oracle call: text, a rejection or a body of another
\* shape
LiveReplies == Replies \cup {BadShapeReply}

NextLive ==
    \/ \E ls \in Batches, of \in Offers : ScoreLeads(ls, of)
    \/ \E i \in 1..MaxLeads, reply \in LiveReplies : OpenAIReply(i, reply)
    \/ \E i \in 1..MaxLeads, succeeded \in BOOLEAN :
          GeminiProbeReply(i, succeeded)
    \/ \E i \in 1..MaxLeads, reply \in LiveReplies : GeminiReply(i, reply)
    \/ PromiseAllFulfil
    \/ PromiseAllReject

\* the request lead i awaits is answered or fails, seen on the variables
\* every such step changes: the lead's await point or the model it probes
Answered(i) ==
    /\ i \in DOMAIN pc
    /\ pc[i] # "done"
    /\ \E p \in {"await_openai", "await_probe", "await_gemini", "done"},
          m \in 0..NumModels :
          /\ p # pc[i] \/ m # model[i]
          /\ pc' = [pc EXCEPT ![i] = p]
          /\ model' = [model EXCEPT ![i] = m]

\* no request to the oracle stays unanswered for ever, and the event loop
\* resumes the continuation of a Promise.all that can settle
Fairness ==
    /\ WF_<<pc, model>>(\E i \in 1..MaxLeads : Answered(i))
    /\ WF_vars(PromiseAllFulfil \/ PromiseAllReject)

SpecLive == Init /\ [][NextLive]_vars /\ Fairness

\* the HTTP handlers over the two collections, with OpenAI configured
InitStore == Loaded(Env(Undef, Str(ValidOpenAIKey), Undef)) /\ call = NoCall

NextStore ==
    \/ \E body \in OfferBodies : CreateOffer(body)
    \/ \E file \in CsvFiles : UploadLeads(file)
    \/ \E u \in 1..MaxUploads : InsertMany(u)
    \/ \E batchId \in BatchIds : ScoreRequest(batchId)
    \/ \E r \in 1..MaxRequests : FindOfferResolved(r)
    \/ \E r \in 1..MaxRequests,
          replies \in SeqsUpTo(StoreReplies, MaxLeads) :
          ScoreLeadsResolved(r, replies)
    \/ \E r \in 1..MaxRequests, outcome \in UpdateOutcomes :
          UpdateOneResolved(r, outcome)

SpecStore == InitStore /\ [][NextStore]_vars

----------------------------------------------------------------------------
(* Properties *)

High == <<"H","i","g","h">>
Medium == <<"M","e","d","i","u","m">>
Low == <<"L","o","w">>

\* leads whose scoreLead promise is fulfilled
Fulfilled == { i \in DOMAIN scored : scored[i].status = "fulfilled" }

\* leads whose calculateAIScore promise is fulfilled
Classified == { i \in DOMAIN ai : ai[i].status = "fulfilled" }

SumInRange(r) ==
    /\ r.score = r.ruleScore + r.aiScore
    /\ 0 <= r.score
    /\ r.score <= 100

\* C1: every ScoredLead that scoreLead resolves to and every ScoredLead in the
\* list scoreLeads returns has score = ruleScore + aiScore and 0 <= score <=
\* 100, whether the intent came from an oracle reply, from the parse default
\* or from the heuristic fallback.
C1_FinalScoreIsSum ==
    /\ \A i \in Fulfilled : SumInRange(scored[i].value)
    /\ batch = "fulfilled" =>
          \A i \in DOMAIN returned : SumInRange(returned[i])

\* a returned batch holding a lead at the top score and a lead whose intent
\* score is the lowest
C1_Witness ==
    /\ batch = "fulfilled"
    /\ \E i, j \in DOMAIN returned :
          /\ returned[i].score = 100
          /\ returned[j].aiScore = 10
          /\ returned[j].ruleScore > 0

\* C2: a scoreLeads call that succeeds returns one result per input lead, and
\* the i-th result is what scoreLead resolved to for the i-th input lead,
\* whatever the order in which the oracle calls completed.
C2_BatchOrderPreserved ==
    batch = "fulfilled" =>
        /\ Len(returned) = Len(leads)
        /\ \A i \in 1..Len(leads) :
              /\ returned[i] = scored[i].value
              /\ returned[i]._id = leads[i]._id

\* a returned batch of two leads, scored through an oracle, whose input order
\* is not the order of their ids
C2_Witness ==
    /\ batch = "fulfilled"
    /\ Len(leads) = 2
    /\ leads[1]._id > leads[2]._id
    /\ returned[1]._id = leads[1]._id
    /\ calls[1] # <<>>
    /\ calls[2] # <<>>

\* C3: a scoreLeads call ends in one of two ways: it returns a ScoredLead for
\* every input lead, or it rejects with AppError 500; once the scoring of any
\* lead has failed the caller never receives a result list.
C3_AllOrError ==
    /\ batch = "fulfilled" =>
          /\ \A i \in DOMAIN scored : scored[i].status = "fulfilled"
          /\ Len(returned) = Len(leads)
          /\ \A i \in 1..Len(leads) :
                /\ returned[i]._id = leads[i]._id
                /\ returned[i].intent \in {High, Medium, Low}
    /\ batch = "rejected" =>
          /\ returned.statusCode = 500
          /\ returned.message = "Failed to score leads"
          /\ \E i \in DOMAIN scored : scored[i].status = "rejected"
    /\ (\E i \in DOMAIN scored : scored[i].status = "rejected") =>
          batch # "fulfilled"

\* a rejected batch in which one lead had been scored and another had failed
C3_Witness ==
    /\ batch = "rejected"
    /\ \E i, j \in DOMAIN scored :
          /\ scored[i].status = "fulfilled"
          /\ scored[j].status = "rejected"

\* C4: calculateAIScore never raises to its caller: its promise is never
\* rejected, whatever the lead, the offer and the oracle outcome.
C4_ClassifyNeverRaises ==
    \A i \in DOMAIN ai : ai[i].status # "rejected"

\* lead.industry is a case-insensitive substring of some ideal use case
IndustryWithinUseCase(lead, of) ==
    /\ lead.industry.t = "str"
    /\ lead.industry.v # <<>>
    /\ of.ideal_use_cases.t = "arr"
    /\ \E k \in 1..Len(of.ideal_use_cases.v) :
          includes(toLowerCase(of.ideal_use_cases.v[k].v),
                   toLowerCase(lead.industry.v))

\* lead.role contains one of ceo, cto, founder, director, head
RoleHasStrongKeyword(lead) ==
    /\ lead.role.t = "str"
    /\ \E k \in 1..Len(strongRoleKeywords) :
          includes(toLowerCase(lead.role.v), strongRoleKeywords[k])

\* C5: with no oracle configured, a lead whose role contains a strong keyword
\* and whose industry is a case-insensitive substring of some ideal use case
\* is classified High with score 50 by the fallback heuristic.
C5_FallbackHighOnMatch ==
    \A i \in Classified :
        ( /\ via[i] = "none"
          /\ RoleHasStrongKeyword(leads[i])
          /\ IndustryWithinUseCase(leads[i], offer) )
        => /\ ai[i].value.intent = High
           /\ ai[i].value.score = 50

\* C6: every IntentResult calculateAIScore resolves to has intent High, Medium
\* or Low and the score the table gives that intent: High 50, Medium 30, Low
\* 10.
C6_IntentScoreTable ==
    \A i \in Classified :
        \/ ai[i].value.intent = High /\ ai[i].value.score = 50
        \/ ai[i].value.intent = Medium /\ ai[i].value.score = 30
        \/ ai[i].value.intent = Low /\ ai[i].value.score = 10

\* an oracle reply written in another letter case, parsed to Low
C6_Witness ==
    \E i \in Classified :
        /\ via[i] # "none"
        /\ ai[i].value.intent = Low
        /\ ai[i].value.reasoning = <<"n","o"," ","b","u","d","g","e","t">>

\* C7: the intent label of a scored lead is the band of its final score: High
\* exactly for 70-100, Medium exactly for 40-69, Low exactly for 0-39.
C7_IntentFollowsScoreBand ==
    \A i \in Fulfilled :
        LET r == scored[i].value IN
        /\ r.intent = High <=> r.score >= 70
        /\ r.intent = Medium <=> (r.score >= 40 /\ r.score <= 69)
        /\ r.intent = Low <=> r.score <= 39

CredentialUsable(key, sentinel) ==
    /\ key.t = "str"
    /\ \E k \in 1..Len(key.v) : ~IsSpace(key.v[k])
    /\ key.v # sentinel

\* the provider AI_PROVIDER names, when it names one
Named == IF env.AI_PROVIDER.t = "str"
         THEN toLowerCase(env.AI_PROVIDER.v)
         ELSE <<>>

IsHeuristicResult(r) ==
    r.reasoning \in
        { <<"S","t","r","o","n","g"," ","i","n","d","i","c","a","t","o","r","s",":"," ","r","e","l","e","v","a","n","t"," ","r","o","l","e"," ","a","n","d"," ","i","n","d","u","s","t","r","y"," ","m","a","t","c","h">>,
          <<"M","o","d","e","r","a","t","e"," ","i","n","d","i","c","a","t","o","r","s"," ","p","r","e","s","e","n","t">>,
          <<"L","i","m","i","t","e","d"," ","i","n","d","i","c","a","t","o","r","s"," ","o","f"," ","s","t","r","o","n","g"," ","f","i","t">> }

\* C9: a provider has a client exactly when its credential is present, not
\* blank and not the placeholder; calculateAIScore goes to the provider
\* AI_PROVIDER names when that provider has a client, else to the other
\* provider when that one has a client; with neither it sends no request and
\* settles at once with the heuristic's result.
C9_ProviderSelection ==
    /\ openai <=> CredentialUsable(env.OPENAI_API_KEY, OpenAISentinel)
    /\ gemini <=> CredentialUsable(env.GEMINI_API_KEY, GeminiSentinel)
    /\ \A i \in DOMAIN via :
          /\ (Named = <<"o","p","e","n","a","i">> /\ openai) => via[i] = "openai"
          /\ (Named = <<"g","e","m","i","n","i">> /\ gemini) => via[i] = "gemini"
          /\ (Named = <<"o","p","e","n","a","i">> /\ ~openai /\ gemini) => via[i] = "gemini"
          /\ (Named = <<"g","e","m","i","n","i">> /\ ~gemini /\ openai) => via[i] = "openai"
          /\ (~openai /\ ~gemini) =>
                /\ via[i] = "none"
                /\ calls[i] = <<>>
                /\ ai[i].status # "pending"
                /\ ai[i].status = "fulfilled" => IsHeuristicResult(ai[i].value)
          /\ \A k \in 1..Len(calls[i]) : calls[i][k].api = via[i]

\* AI_PROVIDER names Gemini, whose key is the placeholder, and the request
\* went to OpenAI
C9_Witness ==
    /\ Named = <<"g","e","m","i","n","i">>
    /\ env.GEMINI_API_KEY = Str(GeminiSentinel)
    /\ \E i \in DOMAIN via :
          /\ via[i] = "openai"
          /\ calls[i] # <<>>
          /\ calls[i][1].api = "openai"

\* C10: with AI_PROVIDER not set and both providers configured, the
\* classification of a lead is requested from Gemini.
C10_DefaultProviderGemini ==
    \A i \in DOMAIN via :
        (env.AI_PROVIDER = Undef /\ openai /\ gemini) =>
            /\ via[i] = "gemini"
            /\ \A k \in 1..Len(calls[i]) : calls[i][k].api = "gemini"

\* the positions in a lead's requests at which its prompt was sent
PromptCalls(c) == { k \in 1..Len(c) : c[k].body = "prompt" }

\* C11 (as the specification states it): scoring one lead makes at most one
\* outbound oracle call, whichever provider is selected.
C11_AtMostOneOracleCall ==
    \A i \in DOMAIN calls : Len(calls[i]) <= 1

\* C11 (amended): the lead's prompt is sent at most once and nothing is sent
\* after it; with OpenAI the prompt is the only call, with Gemini it follows
\* one to NumModels 'Hello' probes, and without a provider nothing is sent.
C11_OnePromptPerLead ==
    \A i \in DOMAIN calls :
        LET c == calls[i] IN
        /\ Cardinality(PromptCalls(c)) <= 1
        /\ \A k \in PromptCalls(c) : k = Len(c)
        /\ via[i] = "openai" => Len(c) <= 1 /\ PromptCalls(c) = DOMAIN c
        /\ via[i] = "gemini" =>
              Len(c) - Cardinality(PromptCalls(c)) \in 1..NumModels
        /\ via[i] = "none" => c = <<>>
        /\ \A k \in DOMAIN c :
              c[k].api = via[i] /\ c[k].body \in {"Hello", "prompt"}

\* every Gemini probe failed, the prompt was sent once, the reply was an
\* error and the heuristic classified the lead: no call followed
C11_Witness ==
    \E i \in DOMAIN calls :
        /\ pc[i] = "done"
        /\ via[i] = "gemini"
        /\ Len(calls[i]) = NumModels + 1
        /\ ai[i].status = "fulfilled"
        /\ IsHeuristicResult(ai[i].value)

\* text holds a match of /INTENT:\s*(High|Medium|Low)/i
HasIntentToken(text) == \E p \in 1..Len(text) : IntentMatchAt(text, p)

\* text holds a match of /REASONING:\s*(.+?)(?:\n|$)/i
HasReasoningLine(text) == \E p \in 1..Len(text) : ReasoningMatchAt(text, p)

\* the oracle replies that carry text with neither token
UnparseableReplies ==
    { r \in WideReplies :
        /\ r.kind = "text"
        /\ ~HasIntentToken(r.text)
        /\ ~HasReasoningLine(r.text) }

PlaceholderResult ==
    [intent |-> <<"M","e","d","i","u","m">>, score |-> 30,
     reasoning |-> <<"A","I"," ","a","n","a","l","y","s","i","s"," ","c","o","m","p","l","e","t","e","d">>]

\* C12: when the oracle's reply carries neither a valid INTENT token nor a
\* REASONING line, the lead is classified Medium with score 30 and the
\* reasoning 'AI analysis completed'; no error is raised and the fallback
\* heuristic is not used.
C12_UnparseableReplyIsMedium ==
    [][\A i \in DOMAIN pc, r \in UnparseableReplies :
          (OpenAIReply(i, r) \/ GeminiReply(i, r)) =>
              /\ ai'[i] = Return(PlaceholderResult)
              /\ scored'[i].status = "fulfilled"
              /\ scored'[i].value.aiScore = 30
              /\ scored'[i].value.intent = PlaceholderResult.intent]_vars

\* a lead whose oracle replied without either token, a lead the heuristic
\* would have classified otherwise
C12_Witness ==
    \E i \in DOMAIN ai :
        /\ via[i] \in {"openai", "gemini"}
        /\ ai[i] = Return(PlaceholderResult)
        /\ scored[i].status = "fulfilled"
        /\ FallbackCompletion(leads[i], offer) # Return(PlaceholderResult)

\* text matches the whole pattern: a valid INTENT token and, on a later
\* line, a REASONING line
HasWholePattern(text) ==
    \E p, n, q \in 1..Len(text) :
        /\ p < n /\ n < q
        /\ IntentMatchAt(text, p)
        /\ text[n] = "\n"
        /\ ReasoningMatchAt(text, q)

\* the oracle replies that carry text
TextReplies == { r \in WideReplies : r.kind = "text" }

\* the text replies that do not match the whole pattern
PartialReplies ==
    { r \in TextReplies : ~HasWholePattern(trim(r.text)) }

SameRoleAndIndustry(lead) ==
    { [l EXCEPT !.linkedin_bio = b] :
        l \in {lead, [lead EXCEPT !._id = 9, !.name = Undef,
                                  !.company = Str(<<"F","o","u","n","d","e","r","s"," ","I","n","c">>),
                                  !.location = Str(<<>>)]},
        b \in {lead.linkedin_bio, Str(<<"F","o","u","n","d","e","r"," ","a","n","d"," ","C","E","O">>)} }

\* offers that agree with of on the ideal use cases and differ elsewhere
SameUseCases(of) ==
    { [of EXCEPT !.name = n, !.value_props = vp] :
        n \in {of.name, Str(<<"H","e","a","d"," ","o","f"," ","R","e","t","a","i","l">>)},
        vp \in {of.value_props, Undef} }

\* C14: the (intent, score, reasoning) the fallback heuristic returns is
\* determined by the lead's role, the lead's industry and the offer's ideal
\* use cases alone: whatever led to the fallback, any lead and offer that
\* agree on these three get the same result.
C14_FallbackReadsThreeFields ==
    \A i \in DOMAIN ai :
        (ai[i].status = "fulfilled" /\ IsHeuristicResult(ai[i].value)) =>
            \A l \in SameRoleAndIndustry(leads[i]), of \in SameUseCases(offer) :
                FallbackCompletion(l, of) = ai[i]

\* the heuristic classified a lead High after the provider's call failed
C14_Witness ==
    \E i \in DOMAIN ai :
        /\ via[i] \in {"openai", "gemini"}
        /\ calls[i] # <<>>
        /\ ai[i].status = "fulfilled"
        /\ IsHeuristicResult(ai[i].value)
        /\ ai[i].value.score = 50

\* the call of function fn has ended
Ended(fn) == call.fn = fn /\ call.result # Pending

\* C15: every breakdown calculateRuleScore returns, the one of its error path
\* included, has roleScore in {0, 10, 20}, industryScore in {0, 10, 20},
\* completenessScore in {0, 10} and totalScore equal to their sum.
C15_BreakdownRanges ==
    Ended("calculateRuleScore") =>
        /\ call.result.status = "fulfilled"
        /\ LET b == call.result.value IN
           /\ DOMAIN b = {"roleScore", "industryScore", "completenessScore",
                          "totalScore"}
           /\ b.roleScore \in {0, 10, 20}
           /\ b.industryScore \in {0, 10, 20}
           /\ b.completenessScore \in {0, 10}
           /\ b.totalScore =
                 b.roleScore + b.industryScore + b.completenessScore

\* a breakdown with every sub-score at its maximum
C15_Witness ==
    /\ Ended("calculateRuleScore")
    /\ call.result.value.roleScore = 20
    /\ call.result.value.industryScore = 20
    /\ call.result.value.completenessScore = 10
    /\ call.result.value.totalScore = 50

\* text holds word somewhere, whatever the letter case
Mentions(text, word) == \E p \in 1..Len(text) : MatchAt(text, p, word)

\* text holds one of words
MentionsAny(text, words) ==
    \E k \in 1..Len(words) : Mentions(text, words[k])

\* C16: scoreRoleRelevance returns 20 for a role that contains a
\* decision-maker keyword, with or without an influencer keyword beside it;
\* otherwise 10 for a role that contains an influencer keyword; otherwise 0;
\* and 0 for an empty, null or undefined role.
C16_RoleTiers ==
    (Ended("scoreRoleRelevance") /\ call.args[1].t \in {"str", "undef", "null"})
    => LET role == call.args[1]
           score == call.result.value
       IN  /\ call.result.status = "fulfilled"
           /\ role.t # "str" => score = 0
           /\ role = Str(<<>>) => score = 0
           /\ role.t = "str" =>
                 score = IF MentionsAny(role.v, decisionMakerKeywords) THEN 20
                         ELSE IF MentionsAny(role.v, influencerKeywords)
                         THEN 10
                         ELSE 0
           /\ role = Str(<<"C","E","O">>) => score = 20
           /\ role = Str(<<"S","e","n","i","o","r"," ","D","i","r","e","c","t","o","r">>) => score = 20
           /\ role = Str(<<"G","e","n","e","r","a","l"," ","M","a","n","a","g","e","r">>) => score = 20
           /\ role = Str(<<"S","a","l","e","s"," ","M","a","n","a","g","e","r">>) => score = 10
           /\ role = Str(<<"L","e","a","d"," ","A","r","c","h","i","t","e","c","t">>) => score = 10
           /\ role = Str(<<"D","e","v","e","l","o","p","e","r">>) => score = 0

\* a role with a keyword of either kind scored 20
C16_Witness ==
    /\ Ended("scoreRoleRelevance")
    /\ call.args[1] = Str(<<"S","e","n","i","o","r"," ","D","i","r","e","c","t","o","r">>)
    /\ call.result = Return(20)

\* industry and useCase match exactly: one contains the other, whatever the
\* letter case
ExactMatch(industry, useCase) ==
    \/ Mentions(useCase, toLowerCase(industry))
    \/ Mentions(industry, toLowerCase(useCase))

\* C17: scoreIndustryMatch returns 20 whenever the industry matches one of
\* the ideal use cases exactly, at whatever position that use case stands
\* and whatever the other use cases are.
C17_ExactMatchAnywhere ==
    (/\ Ended("scoreIndustryMatch")
     /\ call.args[1].t = "str"
     /\ call.args[1].v # <<>>
     /\ call.args[2].t = "arr"
     /\ \E k \in 1..Len(call.args[2].v) :
           ExactMatch(call.args[1].v, call.args[2].v[k].v))
    => call.result = Return(20)

\* C18: against the use cases 'B2B SaaS mid-market' and 'Sales teams',
\* scoreIndustryMatch returns 0 for Healthcare and for Retail, industries
\* that match neither use case and are not technology-adjacent; and a
\* complete lead with role Developer and industry Retail has the rule total
\* 10, its completeness score alone.
C18_UnrelatedIndustryScoresZero ==
    /\ (/\ Ended("scoreIndustryMatch")
        /\ call.args[1] \in {Str(<<"H","e","a","l","t","h","c","a","r","e">>), Str(<<"R","e","t","a","i","l">>)}
        /\ call.args[2] = UseCasesMidMarket)
       => call.result = Return(0)
    /\ (/\ Ended("calculateRuleScore")
        /\ call.args[1].role = Str(<<"D","e","v","e","l","o","p","e","r">>)
        /\ call.args[1].industry = Str(<<"R","e","t","a","i","l">>)
        /\ scoreDataCompleteness(call.args[1]) = 10
        /\ call.args[2].ideal_use_cases = UseCasesMidMarket)
       => call.result.value.totalScore = 10

\* the field holds text with a character that is not white space
Populated(value) ==
    /\ value.t = "str"
    /\ \E k \in 1..Len(value.v) : ~IsSpace(value.v[k])

\* the five fields of lead are each text or absent
FieldsAreText(lead) ==
    \A f \in {"name", "role", "company", "industry", "location"} :
        lead[f].t \in {"str", "undef", "null"}

\* C19: scoreDataCompleteness returns 0 when any of name, role, company,
\* industry and location is absent or blank after trimming, and 10 when all
\* five are populated.
C19_CompletenessAllOrNothing ==
    (Ended("scoreDataCompleteness") /\ FieldsAreText(call.args[1])) =>
        LET lead == call.args[1] IN
        /\ (\E f \in {"name", "role", "company", "industry", "location"} :
               ~Populated(lead[f]))
           => call.result = Return(0)
        /\ (\A f \in {"name", "role", "company", "industry", "location"} :
               Populated(lead[f]))
           => call.result = Return(10)

\* a lead whose only flaw is a location of blanks scored 0
C19_Witness ==
    /\ Ended("scoreDataCompleteness")
    /\ call.args[1] = [CompleteLead EXCEPT !.location = Str(<<" "," ">>)]
    /\ call.result = Return(0)

\* the value is text or absent, as a lead field is meant to be
WellFormed(value) == value.t \in {"str", "undef", "null"}

\* C20: calculateRuleScore never raises, and a missing or malformed lead
\* field brings only the sub-score that depends on it to 0: the role score
\* and the industry score of a well-formed field keep the value the field's
\* own function gives, so a malformed role does not zero a matching
\* industry score.
C20_OnlyDependentScoreDegrades ==
    Ended("calculateRuleScore") =>
        LET lead == call.args[1]
            of == call.args[2]
            b == call.result.value
        IN  /\ call.result.status = "fulfilled"
            /\ b.roleScore = IF WellFormed(lead.role)
                             THEN scoreRoleRelevance(lead.role) ELSE 0
            /\ b.industryScore =
                  IF WellFormed(lead.industry)
                  THEN scoreIndustryMatch(lead.industry, of.ideal_use_cases)
                  ELSE 0

\* a call of calculateRuleScore with an empty list of ideal use cases, for a
\* lead with the five required fields populated and a role without keyword
EmptyOfferCall ==
    /\ Ended("calculateRuleScore")
    /\ call.args[2].ideal_use_cases = Arr(<<>>)
    /\ \A f \in {"name", "role", "company", "industry", "location"} :
          Populated(call.args[1][f])
    /\ ~MentionsAny(call.args[1].role.v, decisionMakerKeywords)
    /\ ~MentionsAny(call.args[1].role.v, influencerKeywords)

RoleClause(n) ==
    IF n = 20 THEN <<"r","o","l","e"," ","r","e","l","e","v","a","n","c","e"," ","(","2","0"," ","p","t","s",")">>
    ELSE IF n = 10 THEN <<"r","o","l","e"," ","r","e","l","e","v","a","n","c","e"," ","(","1","0"," ","p","t","s",")">>
    ELSE <<>>

IndustryClause(n) ==
    IF n = 20 THEN <<"i","n","d","u","s","t","r","y"," ","m","a","t","c","h"," ","(","2","0"," ","p","t","s",")">>
    ELSE IF n = 10 THEN <<"i","n","d","u","s","t","r","y"," ","m","a","t","c","h"," ","(","1","0"," ","p","t","s",")">>
    ELSE <<>>

CompletenessClause(n) ==
    IF n = 10 THEN <<"d","a","t","a"," ","c","o","m","p","l","e","t","e","n","e","s","s"," ","(","1","0"," ","p","t","s",")">> ELSE <<>>

\* a and b with ', ' between them when neither is empty
Comma(a, b) ==
    IF a = <<>> THEN b
    ELSE IF b = <<>> THEN a
    ELSE a \o <<","," ">> \o b

\* the rule clause of a breakdown
RuleClause(b) ==
    IF b.roleScore = 0 /\ b.industryScore = 0 /\ b.completenessScore = 0
    THEN <<"n","o"," ","r","u","l","e"," ","m","a","t","c","h","e","s">>
    ELSE Comma(RoleClause(b.roleScore),
               Comma(IndustryClause(b.industryScore),
                     CompletenessClause(b.completenessScore)))

\* C22: the reasoning of a ScoredLead is the reasoning of the oracle or of
\* the heuristic, then ' Rule-based analysis: ', then a clause that lists
\* exactly the nonzero sub-scores in the order role, industry, completeness,
\* each as '<label> (<N> pts)' with ', ' between them; the clause is 'no rule
\* matches' exactly when the three sub-scores are 0.
C22_ReasoningListsNonzeroScores ==
    \A i \in Fulfilled :
        LET r == scored[i].value
            b == r.scoreBreakdown
            allZero == b.roleScore = 0 /\ b.industryScore = 0
                       /\ b.completenessScore = 0
        IN  /\ r.reasoning = ai[i].value.reasoning
                              \o <<" ","R","u","l","e","-","b","a","s","e","d"," ","a","n","a","l","y","s","i","s",":"," ">> \o RuleClause(b)
            /\ allZero <=>
                  SubSeq(r.reasoning, Len(r.reasoning) - 14, Len(r.reasoning))
                      = <<"n","o"," ","r","u","l","e"," ","m","a","t","c","h","e","s">>

\* a lead with no role score: its clause starts at the industry score
C22_Witness ==
    \E i \in Fulfilled :
        /\ scored[i].value.scoreBreakdown.roleScore = 0
        /\ scored[i].value.scoreBreakdown.industryScore = 10
        /\ scored[i].value.scoreBreakdown.completenessScore = 10
        /\ scored[i].value.reasoning =
              ai[i].value.reasoning \o <<" ","R","u","l","e","-","b","a","s","e","d"," ","a","n","a","l","y","s","i","s",":"," ","i","n","d","u","s","t","r","y"," ","m","a","t","c","h"," ","(","1","0"," ","p","t","s",")",","," ","d","a","t","a"," ","c","o","m","p","l","e","t","e","n","e","s","s"," ","(","1","0"," ","p","t","s",")">>

\* the orderings of the sequence s
Orderings(s) ==
    { [k \in 1..Len(s) |-> s[p[k]]] : p \in Permutations(1..Len(s)) }

\* C23: reordering the ideal use cases never changes whether
\* scoreIndustryMatch gives an industry a nonzero score: the score is 0 for
\* one ordering exactly when it is 0 for every ordering.
C23_NonzeroWhateverTheOrder ==
    (/\ Ended("scoreIndustryMatch")
     /\ call.result.status = "fulfilled"
     /\ call.args[2].t = "arr")
    => \A o \in Orderings(call.args[2].v) :
          (scoreIndustryMatch(call.args[1], Arr(o)) = 0)
              <=> (call.result.value = 0)

\* an industry scored 10 that another ordering of the use cases scores 20
C23_Witness ==
    /\ Ended("scoreIndustryMatch")
    /\ call.result = Return(10)
    /\ call.args[2].t = "arr"
    /\ \E o \in Orderings(call.args[2].v) :
          scoreIndustryMatch(call.args[1], Arr(o)) = 20

\* the leads' fields are text or absent and the offer's lists are arrays
WellFormedBatch ==
    /\ \A i \in DOMAIN leads :
          \A f \in {"name", "role", "company", "industry", "location",
                    "linkedin_bio"} : WellFormed(leads[i][f])
    /\ offer.value_props.t = "arr"
    /\ offer.ideal_use_cases.t = "arr"

\* scoreLeads has returned one ScoredLead for each lead, in the leads' order
CompletedWithScores ==
    /\ batch = "fulfilled"
    /\ Len(returned) = Len(leads)
    /\ \A i \in DOMAIN leads :
          /\ returned[i]._id = leads[i]._id
          /\ returned[i].score = returned[i].ruleScore + returned[i].aiScore
          /\ returned[i].intent \in {High, Medium, Low}

\* C24: for well-formed leads and a well-formed offer, and an oracle whose
\* calls each return or fail in the end, every scoreLeads call completes in
\* the end, and completes with a ScoredLead for every lead.
C24_WellFormedBatchCompletes ==
    (batch = "pending" /\ WellFormedBatch) ~> CompletedWithScores

\* a batch of two completed although an oracle call of it failed
C24_Witness ==
    /\ CompletedWithScores
    /\ WellFormedBatch
    /\ Len(leads) = MaxLeads
    /\ \E i \in DOMAIN leads :
          calls[i] # <<>> /\ IsHeuristicResult(ai[i].value)

----------------------------------------------------------------------------
(* The upload and scoring requests *)

\* the documents of the leads collection that belong to batch b
BatchLeads(b) == findByBatch(leadsDb, b)

\* request r has read its offer
HasOffer(r) == requests[r].pc \in {"scoring", "updating"}
               \/ requests[r].response.status = "success"

\* every document of a batch carries the offer its upload read, and a
\* scoring request works with that offer, for the rule scores as well
OneOfferPerBatch ==
    /\ \A u \in DOMAIN uploads :
          \A k \in DOMAIN leadsDb :
              leadsDb[k].batchId = uploads[u].batchId
              => leadsDb[k].offerId = uploads[u].offerId
    /\ \A r \in DOMAIN requests :
          HasOffer(r) =>
              /\ \A k \in DOMAIN leadsDb :
                    leadsDb[k].batchId = requests[r].batchId
                    => leadsDb[k].offerId = requests[r].offer._id
              /\ requests[r].offer = offersDb[requests[r].offer._id]
              /\ \A i \in DOMAIN requests[r].scoredLeads :
                    requests[r].scoredLeads[i].scoreBreakdown =
                        calculateRuleScore(
                            requests[r].leads[i],
                            offersDb[requests[r].leads[i].offerId])

\* an upload that gets past its checks has read the newest offer there is
UploadReadsNewestOffer ==
    \A file \in CsvFiles :
        (UploadLeads(file) /\ uploads'[Len(uploads')].pc = "insert")
        => uploads'[Len(uploads')].offerId = Len(offersDb)

\* C25: all leads of a batch are scored against one and the same offer: every
\* lead an upload creates carries the id of the offer that was the newest
\* when the upload read it, and POST /api/score scores the whole batch
\* against that offer, whatever offers were created after the upload.
C25_BatchScoredAgainstItsOffer ==
    []OneOfferPerBatch /\ [][UploadReadsNewestOffer]_vars

\* a batch of two leads tagged with the first of two offers was scored to
\* the end with the first offer, which rates its first lead differently
\* from the second offer
C25_Witness ==
    /\ Len(offersDb) = 2
    /\ \E r \in DOMAIN requests :
          /\ requests[r].response.status = "success"
          /\ Len(requests[r].scoredLeads) = 2
          /\ requests[r].offer._id = 1
          /\ requests[r].scoredLeads[1].ruleScore =
                 calculateRuleScore(requests[r].leads[1],
                                    offersDb[1]).totalScore
          /\ requests[r].scoredLeads[1].ruleScore #
                 calculateRuleScore(requests[r].leads[1],
                                    offersDb[2]).totalScore

\* C26: when POST /api/score responds with success, every lead of the batch
\* has been updated in the database with the values the response reports:
\* an update that failed or modified nothing does not end in a success
\* response.
C26_SuccessMeansEveryLeadUpdated ==
    \A r \in DOMAIN requests :
        requests[r].response.status = "success"
        => requests[r].successfulUpdates = Len(requests[r].scoredLeads)

\* the scoring fields of document doc are those scored lead s carries
StoredFrom(doc, s) ==
    /\ s._id = doc._id
    /\ s.intent = doc.intent
    /\ s.score = doc.score
    /\ s.aiScore = doc.aiScore

\* the document has never been scored
Unscored(doc) ==
    /\ doc.intent = Null
    /\ doc.score = 0
    /\ doc.ruleScore = 0
    /\ doc.aiScore = 0

\* C27: in every reachable state of the leads collection, after any uploads
\* and scoring requests, two interleaved requests for one batch included,
\* each stored lead has score = ruleScore + aiScore, and its intent, score
\* and aiScore are those of one and the same scoring run.
C27_StoredLeadIsOneRun ==
    \A k \in DOMAIN leadsDb :
        /\ leadsDb[k].score = leadsDb[k].ruleScore + leadsDb[k].aiScore
        /\ \/ Unscored(leadsDb[k])
           \/ \E r \in DOMAIN requests :
                 \E i \in DOMAIN requests[r].scoredLeads :
                     StoredFrom(leadsDb[k], requests[r].scoredLeads[i])

\* the probe of the last model name of lead i fails, the probes of the
\* names before it having failed already
LastProbeFails(i) ==
    /\ i \in DOMAIN pc
    /\ pc[i] = "await_probe"
    /\ model[i] = NumModels
    /\ GeminiProbeReply(i, FALSE)

\* C28: in calculateGeminiScore, when the probe fails for every candidate
\* model name the prompt is not sent: the function raises 'Unable to connect
\* to any available Gemini model' and the classification of the lead falls
\* back to the heuristic.
C28_NoPromptAfterFailedProbes ==
    [][\A i \in 1..MaxLeads :
          LastProbeFails(i) =>
              /\ calls'[i] = calls[i]
              /\ pc'[i] = "done"
              /\ ai'[i] = FallbackCompletion(leads[i], offer)]_vars

\* validateLead returns true for the record
Accepts(record) == ~validateLeadThrows(record) /\ validateLead(record)

\* scoreDataCompleteness returns 10 for the record
Complete(record) ==
    ~scoreDataCompletenessThrows(record) /\ scoreDataCompleteness(record) = 10

\* the two functions agree on records with populated, absent, empty and
\* blank fields and with a number in a field
AgreeOnRecords ==
    \A record \in CompletenessLeads : Accepts(record) <=> Complete(record)

\* C29: validateLead accepts a record exactly when scoreDataCompleteness
\* gives it 10, so every lead stored through an upload has completeness 10,
\* and a rule score of at least 10, when it is scored later.
C29_StoredLeadsAreComplete ==
    /\ AgreeOnRecords
    /\ \A u \in DOMAIN uploads :
          uploads[u].statusCode # 404 =>
              \A k \in DOMAIN uploads[u].file :
                  (\E j \in DOMAIN uploads[u].validLeads :
                      uploads[u].validLeads[j] = uploads[u].file[k])
                  <=> Complete(uploads[u].file[k])
    /\ \A k \in DOMAIN leadsDb : Complete(leadsDb[k])
    /\ \A r \in DOMAIN requests :
          \A i \in DOMAIN requests[r].scoredLeads :
              /\ requests[r].scoredLeads[i].scoreBreakdown.completenessScore
                 = 10
              /\ requests[r].scoredLeads[i].ruleScore >= 10

\* of a file with a complete record and one whose role is blanks only the
\* first was stored, and it was scored with completeness 10
C29_Witness ==
    /\ \E u \in DOMAIN uploads :
          /\ uploads[u].statusCode = 201
          /\ Len(uploads[u].file) = 2
          /\ Len(uploads[u].validLeads) = 1
          /\ ~Complete(uploads[u].file[2])
    /\ Len(leadsDb) = 1
    /\ \E r \in DOMAIN requests :
          /\ requests[r].pc = "done"
          /\ Len(requests[r].scoredLeads) = 1
          /\ requests[r].scoredLeads[1].scoreBreakdown.completenessScore = 10

====
